---- MODULE Spec2Model ----
(***************************************************************************)
(* SafeHer: the risk scorer and voice recognition (src/README.md, the      *)
(* utils/ai.js listing), the safe-place finder (src/src/utils/location.js),*)
(* the emergency SMS (src/src/utils/sms.js), the SOS button and HomeScreen *)
(* (src/unnamed/part_001), ContactsScreen (src/unnamed/part_000), the      *)
(* stored histories and contact functions (src/README.md, the              *)
(* utils/storage.js listing), the periodic location updates                *)
(* (src/src/utils/sms.js) and SettingsScreen                               *)
(* (src/src/screens/MapScreen.js).                                         *)
(*                                                                         *)
(* Numbers.  JavaScript numbers are IEEE doubles; TLC has integers only.   *)
(*   - a risk sub-score (time, location, environmental, behavioral) is a   *)
(*     whole number of points;                                             *)
(*   - a risk score is held in TENTHS of a point, so that the weights      *)
(*     0.4, 0.3, 0.2, 0.1 are the integers 4, 3, 2, 1 and the flat bonuses *)
(*     10, 15, 20, 5 are 100, 150, 200, 50; the thresholds 40 and 70 are   *)
(*     400 and 700 and the clamp [0,100] is [0,1000];                      *)
(*   - a coordinate is held in units of 0.0001 degree (every coordinate of *)
(*     the reference set has four decimals);                               *)
(*   - a distance is held in whole metres, rounded up, so that             *)
(*     distance <= maxDistance is decided as the code decides it for a     *)
(*     whole-metre maxDistance.                                            *)
(*                                                                         *)
(* Optional values.  A JavaScript value that may be null or undefined is   *)
(* held as a set: None is the empty set, Some(x) the singleton {x}.        *)
(***************************************************************************)
EXTENDS Integers, Sequences, FiniteSets, TLC

VARIABLES
    op, args, ret,   \* a call of a pure function: its name, arguments, result
    history,         \* an earlier call, kept to compare a later one with
    sos,             \* the SOSButton component and the alerts it has raised
    store,           \* the contact list held by the key-value store
    clock,           \* Date.now() at the last contact added
    home,            \* HomeScreen: its trustedContacts state
    contactsScreen,  \* ContactsScreen: its contacts state, once mounted
    composer,        \* the last SMS composer HomeScreen opened
    voice,           \* the voice module, the recogniser and the calls in flight
    histories,       \* the stored emergency, location and report histories
    updates,         \* the periodic location updates and the SMS they sent
    settings,        \* SettingsScreen: its settings state and the stored settings
    api              \* the stored contacts as utils/storage.js handles them

\* The variables of the calls of pure functions.
callVars == <<op, args, ret>>

\* The variables of the contact book and the two screens that use it.
bookVars == <<store, clock, home, contactsScreen, composer>>

\* The variables of the histories, the location updates, the settings and
\* the storage calls.
otherVars == <<histories, updates, settings, api>>

\* The variables of the stateful components.
appVars == <<history, sos, bookVars, voice, otherVars>>

vars == <<op, args, ret, history, sos, store, clock, home, contactsScreen,
          composer, voice, histories, updates, settings, api>>

None == {}

Some(x) == {x}

Get(o) == CHOOSE x \in o : TRUE

Min(a, b) == IF a <= b THEN a ELSE b

Max(a, b) == IF a >= b THEN a ELSE b

\* The value of args and ret before any call is made.
NoValue == [none |-> TRUE]

(***************************************************************************)
(* RiskScorer                                                              *)
(***************************************************************************)

\* An exception leaving a function body: the value a try block ends with
\* when a statement in it throws.
Throw(e) == [thrown |-> e]

Threw(r) == "thrown" \in DOMAIN r

calculateTimeRisk_NightOffByOne(hour, dayOfWeek) ==
    LET base == IF hour >= 22 \/ hour < 5 THEN 80
                ELSE IF hour >= 18 \/ hour <= 7 THEN 40
                ELSE 10
        weekend == IF dayOfWeek = 0 \/ dayOfWeek = 6 THEN 20 ELSE 0
    IN  Min(base + weekend, 100)

\* calculateTimeRisk(hour, dayOfWeek): the first matching branch gives the
\* base, the weekend adds 20, Math.min caps at 100.
calculateTimeRisk(hour, dayOfWeek) ==
    LET base == IF hour >= 22 \/ hour <= 5 THEN 80
                ELSE IF hour >= 18 \/ hour <= 7 THEN 40
                ELSE 10
        weekend == IF dayOfWeek = 0 \/ dayOfWeek = 6 THEN 20 ELSE 0
    IN  Min(base + weekend, 100)

calculateLocationRisk_NoBase(random, bodyThrows) ==
    IF bodyThrows THEN 50 ELSE Min(random, 100)

\* calculateLocationRisk: baseRisk 30 plus randomFactor = Math.random() * 30,
\* capped at 100.  randomFactor is the caller-invisible input `random`, a
\* whole number of points in 0..29.  bodyThrows says that a statement of
\* the try block threw (none can today; the block is where the crime-data
\* lookup of the TODO goes): the catch then returns 50.
calculateLocationRisk(random, bodyThrows) ==
    IF bodyThrows THEN 50 ELSE Min(30 + random, 100)

\* x < n in JavaScript for an optional number x: undefined < n is false.
Lt(x, n) == \E v \in x : v < n

\* x > n in JavaScript for an optional number x: undefined > n is false.
Gt(x, n) == \E v \in x : v > n

calculateEnvironmentalRisk_Unclamped(factors) ==
    LET w == factors.weather
        weather == IF w = None THEN 0
                   ELSE (IF Lt(Get(w).visibility, 1000) THEN 30 ELSE 0)
                      + (IF Gt(Get(w).precipitation, 0) THEN 20 ELSE 0)
                      + (IF Lt(Get(w).temperature, 0) THEN 10 ELSE 0)
        lighting == (IF factors.isDarkArea THEN 40 ELSE 0)
                  + (IF factors.isPoorLighting THEN 25 ELSE 0)
    IN  weather + lighting

\* calculateEnvironmentalRisk(factors), factors not null.
calculateEnvironmentalRisk(factors) ==
    LET w == factors.weather
        weather == IF w = None THEN 0
                   ELSE (IF Lt(Get(w).visibility, 1000) THEN 30 ELSE 0)
                      + (IF Gt(Get(w).precipitation, 0) THEN 20 ELSE 0)
                      + (IF Lt(Get(w).temperature, 0) THEN 10 ELSE 0)
        lighting == (IF factors.isDarkArea THEN 40 ELSE 0)
                  + (IF factors.isPoorLighting THEN 25 ELSE 0)
    IN  Min(weather + lighting, 100)

calculateBehavioralRisk_From300000(factors) ==
    LET movement == (IF factors.isStationary /\ Gt(factors.stationaryTime, 299999)
                     THEN 30 ELSE 0)
                  + (IF Gt(factors.speed, 50) THEN 20 ELSE 0)
        social == (IF factors.isAlone THEN 25 ELSE 0)
                + (IF factors.isDistracted THEN 15 ELSE 0)
    IN  Min(movement + social, 100)

\* calculateBehavioralRisk(factors), factors not null.
calculateBehavioralRisk(factors) ==
    LET movement == (IF factors.isStationary /\ Gt(factors.stationaryTime, 300000)
                     THEN 30 ELSE 0)
                  + (IF Gt(factors.speed, 50) THEN 20 ELSE 0)
        social == (IF factors.isAlone THEN 25 ELSE 0)
                + (IF factors.isDistracted THEN 15 ELSE 0)
    IN  Min(movement + social, 100)

\* generateRiskRecommendations(score, level): the list depends on level only.
generateRiskRecommendations(score, level) ==
    IF level = "Unsafe" THEN
        << "HIGH RISK: Leave the area immediately",
           "Call emergency services if needed",
           "Move to a well-lit, populated area",
           "Stay with trusted people if possible" >>
    ELSE IF level = "Moderate" THEN
        << "MODERATE RISK: Stay alert and aware",
           "Share your location with trusted contacts",
           "Stay in well-lit areas",
           "Keep your phone accessible" >>
    ELSE
        << "SAFE: Continue with normal precautions",
           "Stay aware of your surroundings",
           "Keep emergency contacts ready" >>

WeightedSum_EqualWeights(timeRisk, locationRisk, environmentalRisk, behavioralRisk) ==
    timeRisk * 3 + locationRisk * 3 + environmentalRisk * 3 + behavioralRisk * 1

\* riskScore after the four weighted additions, in tenths:
\* timeRisk * 0.4 + locationRisk * 0.3 + environmentalRisk * 0.2
\* + behavioralRisk * 0.1.
WeightedSum(timeRisk, locationRisk, environmentalRisk, behavioralRisk) ==
    timeRisk * 4 + locationRisk * 3 + environmentalRisk * 2 + behavioralRisk * 1

AdditionalFactors_WeekendDiscount(factors) ==
      (IF factors.isAlone THEN 100 ELSE 0)
    + (IF factors.isDarkArea THEN 150 ELSE 0)
    + (IF factors.hasRecentIncidents THEN 200 ELSE 0)
    - (IF factors.isWeekend THEN 50 ELSE 0)

\* "Apply additional factors": the flat bonuses 10, 15, 20 and 5, in tenths.
AdditionalFactors(factors) ==
      (IF factors.isAlone THEN 100 ELSE 0)
    + (IF factors.isDarkArea THEN 150 ELSE 0)
    + (IF factors.hasRecentIncidents THEN 200 ELSE 0)
    + (IF factors.isWeekend THEN 50 ELSE 0)

Normalize_NoUpperClamp(riskScore) == Max(riskScore, 0)

\* normalizedScore = Math.min(Math.max(riskScore, 0), 100), in tenths.
Normalize(riskScore) == Min(Max(riskScore, 0), 1000)

RiskLevel_ModerateFrom50(normalizedScore) ==
    IF normalizedScore >= 700 THEN "Unsafe"
    ELSE IF normalizedScore >= 500 THEN "Moderate"
    ELSE "Safe"

\* "Determine risk level": the branch the if / else if / else chain takes.
RiskLevel(normalizedScore) ==
    IF normalizedScore >= 700 THEN "Unsafe"
    ELSE IF normalizedScore >= 400 THEN "Moderate"
    ELSE "Safe"

\* The try block of calculateRiskScore.  additionalFactors is optional: the
\* default {} replaces undefined only, so a caller's null reaches
\* calculateEnvironmentalRisk, whose factors.weather throws a TypeError
\* after the time and location risks are computed.
calculateRiskScoreTry(hour, dayOfWeek, random, locationThrows, additionalFactors) ==
    LET timeRisk == calculateTimeRisk(hour, dayOfWeek)
        locationRisk == calculateLocationRisk(random, locationThrows)
    IN  IF additionalFactors = None THEN Throw("TypeError")
        ELSE
        LET factors == Get(additionalFactors)
            environmentalRisk == calculateEnvironmentalRisk(factors)
            behavioralRisk == calculateBehavioralRisk(factors)
            riskScore == WeightedSum(timeRisk, locationRisk,
                                     environmentalRisk, behavioralRisk)
                         + AdditionalFactors(factors)
            normalizedScore == Normalize(riskScore)
            level == RiskLevel(normalizedScore)
        IN  [ level |-> level,
              score |-> normalizedScore,
              factors |-> [ time |-> timeRisk,
                            location |-> locationRisk,
                            environmental |-> environmentalRisk,
                            behavioral |-> behavioralRisk ],
              recommendations |-> generateRiskRecommendations(normalizedScore, level) ]

\* The value the catch block of calculateRiskScore returns.
UnknownResult ==
    [ level |-> "Unknown",
      score |-> 0,
      factors |-> << >>,
      recommendations |-> << "Unable to assess risk level" >> ]

Catch_Rethrow(r) == r

\* try { ... } catch (error) { return Unknown }: a completed body's value
\* is returned, a thrown error is replaced by the Unknown result.
Catch(r) == IF Threw(r) THEN UnknownResult ELSE r

\* calculateRiskScore(latitude, longitude, additionalFactors) at the time
\* (hour, dayOfWeek); latitude and longitude are read by no statement.
calculateRiskScore(hour, dayOfWeek, random, locationThrows, additionalFactors) ==
    Catch(calculateRiskScoreTry(hour, dayOfWeek, random, locationThrows,
                                additionalFactors))

(***************************************************************************)
(* SafePlaceFinder                                                         *)
(***************************************************************************)

\* loadSafePlaces(): the hard-coded reference set, in its order.  The
\* fields address, phone, hours and description are carried by no
\* computation and are left out.
loadSafePlaces ==
    << [id |-> "1", name |-> "Central Police Station", type |-> "police",
        latitude |-> 407128, longitude |-> -740060],
       [id |-> "2", name |-> "City General Hospital", type |-> "hospital",
        latitude |-> 407589, longitude |-> -739851],
       [id |-> "3", name |-> "Downtown Shopping Mall", type |-> "mall",
        latitude |-> 407505, longitude |-> -739934],
       [id |-> "4", name |-> "Westside Police Precinct", type |-> "police",
        latitude |-> 407614, longitude |-> -739776],
       [id |-> "5", name |-> "Metro Medical Center", type |-> "hospital",
        latitude |-> 407282, longitude |-> -739942],
       [id |-> "6", name |-> "Central Plaza Mall", type |-> "mall",
        latitude |-> 407505, longitude |-> -739934],
       [id |-> "7", name |-> "Emergency Services Hub", type |-> "police",
        latitude |-> 406892, longitude |-> -740445],
       [id |-> "8", name |-> "Community Health Clinic", type |-> "hospital",
        latitude |-> 407831, longitude |-> -739712],
       [id |-> "9", name |-> "Safe Haven Mall", type |-> "mall",
        latitude |-> 407614, longitude |-> -739776],
       [id |-> "10", name |-> "Rapid Response Station", type |-> "police",
        latitude |-> 407282, longitude |-> -739942] >>

\* The values of calculateDistance's haversine formula (Earth radius
\* 6371e3 m, IEEE double arithmetic) from each origin of Origins to each
\* origin of Origins, the coordinates of the reference set among them, in
\* metres rounded up.  TLC has no trigonometry: the formula is evaluated
\* here, not in the model.  Both directions of a pair are evaluated
\* separately, each as a call with its arguments in that order.
Haversine ==
       <<407128, -740060>> :>
           (    <<407128, -740060>> :> 0 @@ <<407589, -739851>> :> 5421
             @@ <<407505, -739934>> :> 4325 @@ <<407614, -739776>> :> 5911
             @@ <<407282, -739942>> :> 1981 @@ <<406892, -740445>> :> 4174
             @@ <<407831, -739712>> :> 8349 @@ <<407580, -739855>> :> 5315
             @@ <<407400, -739900>> :> 3312 @@ <<423601, -710589>> :> 306109 )
    @@ <<407589, -739851>> :>
           (    <<407128, -740060>> :> 5421 @@ <<407589, -739851>> :> 0
             @@ <<407505, -739934>> :> 1167 @@ <<407614, -739776>> :> 691
             @@ <<407282, -739942>> :> 3499 @@ <<406892, -740445>> :> 9227
             @@ <<407831, -739712>> :> 2935 @@ <<407580, -739855>> :> 106
             @@ <<407400, -739900>> :> 2142 @@ <<423601, -710589>> :> 301595 )
    @@ <<407505, -739934>> :>
           (    <<407128, -740060>> :> 4325 @@ <<407589, -739851>> :> 1167
             @@ <<407505, -739934>> :> 0 @@ <<407614, -739776>> :> 1801
             @@ <<407282, -739942>> :> 2481 @@ <<406892, -740445>> :> 8063
             @@ <<407831, -739712>> :> 4079 @@ <<407580, -739855>> :> 1067
             @@ <<407400, -739900>> :> 1203 @@ <<423601, -710589>> :> 302716 )
    @@ <<407614, -739776>> :>
           (    <<407128, -740060>> :> 5911 @@ <<407589, -739851>> :> 691
             @@ <<407505, -739934>> :> 1801 @@ <<407614, -739776>> :> 0
             @@ <<407282, -739942>> :> 3948 @@ <<406892, -740445>> :> 9810
             @@ <<407831, -739712>> :> 2473 @@ <<407580, -739855>> :> 766
             @@ <<407400, -739900>> :> 2599 @@ <<423601, -710589>> :> 300924 )
    @@ <<407282, -739942>> :>
           (    <<407128, -740060>> :> 1981 @@ <<407589, -739851>> :> 3499
             @@ <<407505, -739934>> :> 2481 @@ <<407614, -739776>> :> 3948
             @@ <<407282, -739942>> :> 0 @@ <<406892, -740445>> :> 6065
             @@ <<407831, -739712>> :> 6405 @@ <<407580, -739855>> :> 3394
             @@ <<407400, -739900>> :> 1359 @@ <<423601, -710589>> :> 304276 )
    @@ <<406892, -740445>> :>
           (    <<407128, -740060>> :> 4174 @@ <<407589, -739851>> :> 9227
             @@ <<407505, -739934>> :> 8063 @@ <<407614, -739776>> :> 9810
             @@ <<407282, -739942>> :> 6065 @@ <<406892, -740445>> :> 0
             @@ <<407831, -739712>> :> 12131 @@ <<407580, -739855>> :> 9124
             @@ <<407400, -739900>> :> 7281 @@ <<423601, -710589>> :> 310282 )
    @@ <<407831, -739712>> :>
           (    <<407128, -740060>> :> 8349 @@ <<407589, -739851>> :> 2935
             @@ <<407505, -739934>> :> 4079 @@ <<407614, -739776>> :> 2473
             @@ <<407282, -739942>> :> 6405 @@ <<406892, -740445>> :> 12131
             @@ <<407831, -739712>> :> 0 @@ <<407580, -739855>> :> 3040
             @@ <<407400, -739900>> :> 5048 @@ <<423601, -710589>> :> 299041 )
    @@ <<407580, -739855>> :>
           (    <<407128, -740060>> :> 5315 @@ <<407589, -739851>> :> 106
             @@ <<407505, -739934>> :> 1067 @@ <<407614, -739776>> :> 766
             @@ <<407282, -739942>> :> 3394 @@ <<406892, -740445>> :> 9124
             @@ <<407831, -739712>> :> 3040 @@ <<407580, -739855>> :> 0
             @@ <<407400, -739900>> :> 2038 @@ <<423601, -710589>> :> 301682 )
    @@ <<407400, -739900>> :>
           (    <<407128, -740060>> :> 3312 @@ <<407589, -739851>> :> 2142
             @@ <<407505, -739934>> :> 1203 @@ <<407614, -739776>> :> 2599
             @@ <<407282, -739942>> :> 1359 @@ <<406892, -740445>> :> 7281
             @@ <<407831, -739712>> :> 5048 @@ <<407580, -739855>> :> 2038
             @@ <<407400, -739900>> :> 0 @@ <<423601, -710589>> :> 303196 )
    @@ <<423601, -710589>> :>
           (    <<407128, -740060>> :> 306109 @@ <<407589, -739851>> :> 301595
             @@ <<407505, -739934>> :> 302716 @@ <<407614, -739776>> :> 300924
             @@ <<407282, -739942>> :> 304276 @@ <<406892, -740445>> :> 310282
             @@ <<407831, -739712>> :> 299041 @@ <<407580, -739855>> :> 301682
             @@ <<407400, -739900>> :> 303196 @@ <<423601, -710589>> :> 0 )

calculateDistance_NorthwardLonger(lat1, lon1, lat2, lon2) ==
    Haversine[<<lat1, lon1>>][<<lat2, lon2>>] + (IF lat2 > lat1 THEN 1 ELSE 0)

\* calculateDistance(lat1, lon1, lat2, lon2), from (lat1, lon1) an origin
\* of Origins to (lat2, lon2) an origin of Origins.
calculateDistance(lat1, lon1, lat2, lon2) ==
    Haversine[<<lat1, lon1>>][<<lat2, lon2>>]

WithDistance_AfterEarlierQuery(places, latitude, longitude) ==
    LET reordered == IF history # NoValue /\ history.settled
                     THEN [i \in 1 .. Len(places) |-> places[Len(places) + 1 - i]]
                     ELSE places
    IN  [ i \in 1 .. Len(reordered) |->
            [distance |-> calculateDistance(latitude, longitude,
                                            reordered[i].latitude,
                                            reordered[i].longitude)]
            @@ reordered[i] ]

\* .map(place => ({...place, distance: calculateDistance(latitude,
\* longitude, place.latitude, place.longitude)}))
WithDistance(places, latitude, longitude) ==
    [ i \in 1 .. Len(places) |->
        [distance |-> calculateDistance(latitude, longitude,
                                        places[i].latitude, places[i].longitude)]
        @@ places[i] ]

WithinMaxDistance_Kilometres(place, maxDistance) ==
    place.distance <= maxDistance * 1000

\* place => place.distance <= maxDistance
WithinMaxDistance(place, maxDistance) == place.distance <= maxDistance

\* (a, b) => a.distance - b.distance
CompareDistance(a, b) == a.distance - b.distance

RECURSIVE InsertSorted(_, _)
\* x placed in the sorted sequence s after every element that the
\* comparator does not order after it: equal elements keep their order.
InsertSorted(x, s) ==
    IF s = << >> THEN << x >>
    ELSE IF CompareDistance(s[Len(s)], x) <= 0 THEN Append(s, x)
    ELSE Append(InsertSorted(x, SubSeq(s, 1, Len(s) - 1)), s[Len(s)])

RECURSIVE InsertSorted_BeforeEqual(_, _)
InsertSorted_BeforeEqual(x, s) ==
    IF s = << >> THEN << x >>
    ELSE IF CompareDistance(s[Len(s)], x) < 0 THEN Append(s, x)
    ELSE Append(InsertSorted_BeforeEqual(x, SubSeq(s, 1, Len(s) - 1)), s[Len(s)])

RECURSIVE SortByDistance_Unstable(_)
SortByDistance_Unstable(s) ==
    IF s = << >> THEN << >>
    ELSE InsertSorted_BeforeEqual(s[Len(s)], SortByDistance_Unstable(SubSeq(s, 1, Len(s) - 1)))

RECURSIVE SortByDistance(_)
\* .sort((a, b) => a.distance - b.distance): Array.prototype.sort is
\* stable (ECMAScript 2019), so it is the sorted sequence in which
\* elements the comparator calls equal keep their order.
SortByDistance(s) ==
    IF s = << >> THEN << >>
    ELSE InsertSorted(s[Len(s)], SortByDistance(SubSeq(s, 1, Len(s) - 1)))

Slice_OneMore(s, end) == SubSeq(s, 1, Min(end + 1, Len(s)))

\* .slice(0, end): a negative end counts from the end of the array.
Slice(s, end) ==
    IF end < 0 THEN SubSeq(s, 1, Max(Len(s) + end, 0))
    ELSE SubSeq(s, 1, Min(end, Len(s)))

\* A default parameter value: it replaces an absent (undefined) argument.
Default(arg, value) == IF arg = None THEN value ELSE Get(arg)

\* findNearestSafePlaces(latitude, longitude, maxDistance = 5000,
\* limit = 10): map, filter, sort, slice.  No statement of the try block
\* throws.
findNearestSafePlaces(latitude, longitude, maxDistanceArg, limitArg) ==
    LET maxDistance == Default(maxDistanceArg, 5000)
        limit == Default(limitArg, 10)
        safePlaces == loadSafePlaces
        placesWithDistance == WithDistance(safePlaces, latitude, longitude)
        nearestPlaces ==
            Slice(SortByDistance(
                      SelectSeq(placesWithDistance,
                                LAMBDA place : WithinMaxDistance(place, maxDistance))),
                  limit)
    IN  nearestPlaces

OfType_Any(place, type) == TRUE

\* place => place.type === type
OfType(place, type) == place.type = type

\* findNearestSafePlaceByType(latitude, longitude, type,
\* maxDistance = 5000): filter by type, map, filter, sort, then the first
\* element or null.
findNearestSafePlaceByType(latitude, longitude, type, maxDistanceArg) ==
    LET maxDistance == Default(maxDistanceArg, 5000)
        safePlaces == loadSafePlaces
        placesOfType ==
            SortByDistance(
                SelectSeq(
                    WithDistance(SelectSeq(safePlaces, LAMBDA place : OfType(place, type)),
                                 latitude, longitude),
                    LAMBDA place : WithinMaxDistance(place, maxDistance)))
    IN  IF Len(placesOfType) > 0 THEN Some(placesOfType[1]) ELSE None

(***************************************************************************)
(* SOSButton                                                               *)
(*                                                                         *)
(* sos holds the component's props and state and what it has done:         *)
(*   disabled      the prop (HomeScreen: trustedContacts.length === 0)     *)
(*   isPressed, holdTime   the two useState values (holdTime in ms)        *)
(*   holdInterval  whether holdInterval.current holds a running interval   *)
(*   touching      the finger is on the button: onPressIn was delivered    *)
(*                 and onPressOut not yet                                  *)
(*   presses       the number of presses so far                            *)
(*   held          the interval's ticks since the last press began         *)
(*   raised        the emergency prompts raised since the last press began *)
(*   hints         the 'Hold for 2 seconds' hints shown since then         *)
(*   open          the emergency prompts awaiting Cancel or Confirm        *)
(*   confirms      the times the user chose Confirm                        *)
(*   onPressCalls  the times the onPress prop was called                   *)
(* A handler reads holdTime as of the last render; a render follows every  *)
(* state update before the next event is delivered.                       *)
(***************************************************************************)

\* The period of the hold timer: setInterval(..., 100).
HoldTickMs == 100

\* The hold that activates: newTime >= 2000.
HoldThresholdMs == 2000

\* The ticks of the hold timer in 2 seconds.
TicksToActivate == HoldThresholdMs \div HoldTickMs

\* The component as mounted, with the prop disabled as given.
SOSButton(disabled) ==
    [ disabled |-> disabled, isPressed |-> FALSE, holdTime |-> 0,
      holdInterval |-> FALSE, touching |-> FALSE, presses |-> 0, held |-> 0,
      raised |-> 0, hints |-> 0, open |-> 0, confirms |-> 0, onPressCalls |-> 0 ]

\* handleEmergencyActivation(): Alert.alert with Cancel and Confirm.
handleEmergencyActivation(b) ==
    [b EXCEPT !.raised = @ + 1, !.open = @ + 1]

\* handleNormalPress(): Alert.alert with the hint and OK.
handleNormalPress(b) == [b EXCEPT !.hints = @ + 1]

\* handlePressIn(): nothing when disabled; else isPressed, holdTime 0 and a
\* new interval.
handlePressIn(b) ==
    IF b.disabled THEN b
    ELSE [b EXCEPT !.isPressed = TRUE, !.holdTime = 0, !.holdInterval = TRUE,
                   !.touching = TRUE, !.presses = @ + 1, !.held = 0,
                   !.raised = 0, !.hints = 0]

holdTick_After2000(b) ==
    LET newTime == b.holdTime + HoldTickMs
        t == [b EXCEPT !.held = @ + 1]
    IN  IF newTime > HoldThresholdMs
        THEN [handleEmergencyActivation(t) EXCEPT !.holdTime = 0]
        ELSE [t EXCEPT !.holdTime = newTime]

\* The interval's callback: setHoldTime(prev => ...), which raises the
\* emergency prompt and returns 0 when prev + 100 >= 2000, and returns
\* prev + 100 otherwise.  The interval is not cleared.
holdTick(b) ==
    LET newTime == b.holdTime + HoldTickMs
        t == [b EXCEPT !.held = @ + 1]
    IN  IF newTime >= HoldThresholdMs
        THEN [handleEmergencyActivation(t) EXCEPT !.holdTime = 0]
        ELSE [t EXCEPT !.holdTime = newTime]

\* handlePressOut(): nothing when disabled; else the interval is cleared,
\* the hint is shown when 0 < holdTime < 2000, and holdTime is reset.
handlePressOut(b) ==
    IF b.disabled THEN [b EXCEPT !.touching = FALSE]
    ELSE LET c == [b EXCEPT !.isPressed = FALSE, !.holdInterval = FALSE,
                            !.touching = FALSE, !.holdTime = 0]
         IN  IF b.holdTime < HoldThresholdMs /\ b.holdTime > 0
             THEN handleNormalPress(c) ELSE c

\* The Confirm button of the emergency prompt: onPress: () => { if
\* (onPress) onPress() }.
confirmPrompt(b) ==
    [b EXCEPT !.open = @ - 1, !.confirms = @ + 1, !.onPressCalls = @ + 1]

\* The Cancel button of the emergency prompt.
cancelPrompt(b) == [b EXCEPT !.open = @ - 1]

(***************************************************************************)
(* The contact book (src/unnamed/part_000, ContactsScreen; part_001,       *)
(* HomeScreen; src/README.md, the utils/storage.js listing)                *)
(*                                                                         *)
(* A contact is [id, phone, isEmergency]; its name and addedDate are read  *)
(* by no statement modelled here.  A phone number is the sequence of its   *)
(* characters.  A contact list is a sequence, in the order of the array.   *)
(* The bottom-tab navigator (README: Navigation & UI) mounts HomeScreen    *)
(* when the app starts and ContactsScreen when its tab is first opened,    *)
(* and keeps both mounted from then on.                                    *)
(***************************************************************************)

Digits == {"0", "1", "2", "3", "4", "5", "6", "7", "8", "9"}

\* phoneNumber.replace(/\D/g, '')
Cleaned(phoneNumber) ==
    LET IsDigit(ch) == ch \in Digits
    IN  SelectSeq(phoneNumber, IsDigit)

\* formatPhoneNumber(phoneNumber): +1 before ten digits, + before eleven
\* digits that begin with 1, the number as given otherwise.
formatPhoneNumber(phoneNumber) ==
    LET cleaned == Cleaned(phoneNumber)
    IN  IF Len(cleaned) = 10 THEN <<"+", "1">> \o cleaned
        ELSE IF Len(cleaned) = 11 /\ cleaned[1] = "1" THEN <<"+">> \o cleaned
        ELSE phoneNumber

\* getStoredContacts(): the stored list, [] when nothing is stored.
getStoredContacts == store

\* HomeScreen as mounted: useState([]) and loadInitialData() begun.
\* launch counts the starts of the app.
HomeScreen == [launch |-> 1, loading |-> TRUE, trustedContacts |-> <<>>]

\* ContactsScreen as mounted: useState([]) and loadContacts() begun.
ContactsScreen == [loading |-> TRUE, contacts |-> <<>>]

\* <SOSButton disabled={trustedContacts.length === 0} />
SOSButtonDisabled == Len(home.trustedContacts) = 0

\* .filter(contact => contact.isEmergency && contact.phone)
EmergencyWithPhone(contacts) ==
    LET Keep(contact) == contact.isEmergency /\ contact.phone # <<>>
    IN  SelectSeq(contacts, Keep)

\* emergencyContacts.map(contact => formatPhoneNumber(contact.phone)) of
\* the contacts the filter keeps.
PhoneNumbers(contacts) ==
    LET emergencyContacts == EmergencyWithPhone(contacts)
    IN  [i \in 1 .. Len(emergencyContacts) |->
             formatPhoneNumber(emergencyContacts[i].phone)]

\* sendSOSAlert(location): the recipients of the SMS composer it opens,
\* None when it opens none (no emergency contact, or the sms: URL cannot
\* be opened).
sendSOSAlert(trustedContacts, canOpen) ==
    IF Len(EmergencyWithPhone(trustedContacts)) = 0 THEN None
    ELSE IF canOpen THEN Some(PhoneNumbers(trustedContacts))
    ELSE None

\* handleSOSPress(): nothing without trusted contacts or without the
\* location permission; else sendSOSAlert, with the location or, by the
\* user's choice, without.
handleSOSPress(trustedContacts, hasPermission, canOpen) ==
    IF Len(trustedContacts) = 0 THEN None
    ELSE IF ~ hasPermission THEN None
    ELSE sendSOSAlert(trustedContacts, canOpen)

\* ContactsScreen.addContact: [...contacts, newContact], isEmergency false.
addContact(contacts, id, phone) ==
    Append(contacts, [id |-> id, phone |-> phone, isEmergency |-> FALSE])

\* ContactsScreen.updateContact: the contacts of that id get the phone.
updateContact(contacts, id, phone) ==
    [i \in 1 .. Len(contacts) |->
        IF contacts[i].id = id THEN [contacts[i] EXCEPT !.phone = phone]
        ELSE contacts[i]]

\* ContactsScreen.deleteContact, confirmed: the contacts of other ids.
deleteContact(contacts, id) ==
    LET Other(contact) == contact.id # id
    IN  SelectSeq(contacts, Other)

\* ContactsScreen.toggleEmergencyContact: isEmergency negated for that id.
toggleEmergencyContact(contacts, id) ==
    [i \in 1 .. Len(contacts) |->
        IF contacts[i].id = id
        THEN [contacts[i] EXCEPT !.isEmergency = ~ contacts[i].isEmergency]
        ELSE contacts[i]]

\* The ids of a contact list.
Ids(contacts) == {contacts[i].id : i \in 1 .. Len(contacts)}

(***************************************************************************)
(* Emergency SMS (src/src/utils/sms.js)                                    *)
(*                                                                         *)
(* A call returns [value, sendCalls]: the value the promise resolves to,   *)
(* or Throw(e) if it rejects, and the phone-number arrays the calls of     *)
(* SMS.sendSMSAsync were given, in order.  A contact given here is         *)
(* [phone, isEmergency], phone an optional string.                         *)
(***************************************************************************)

\* isSMSAvailable(): what SMS.isAvailableAsync() resolves to, false when
\* it rejects.  isAvailableAsync is [resolved |-> a boolean] or Throw(e).
isSMSAvailable(isAvailableAsync) ==
    IF Threw(isAvailableAsync) THEN FALSE ELSE isAvailableAsync.resolved

EmergencyPhoneNumbers_AnyPhone(contacts) ==
    LET Keep(contact) == contact.phone # None /\ Get(contact.phone) # <<>>
        kept == SelectSeq(contacts, Keep)
    IN  [i \in 1 .. Len(kept) |-> Get(kept[i].phone)]

\* contacts.filter(contact => contact.phone && contact.isEmergency)
\*         .map(contact => contact.phone)
EmergencyPhoneNumbers(contacts) ==
    LET Keep(contact) ==
            /\ contact.phone # None
            /\ Get(contact.phone) # <<>>
            /\ contact.isEmergency
        kept == SelectSeq(contacts, Keep)
    IN  [i \in 1 .. Len(kept) |-> Get(kept[i].phone)]

\* sendEmergencySMS(contacts, location, customMessage).  contacts is None
\* for null; messageThrows says that createEmergencyMessage(location)
\* throws (a location without a numeric latitude); sendSMSAsync is what
\* SMS.sendSMSAsync resolves to, or Throw(e).
sendEmergencySMS(contacts, isAvailableAsync, messageThrows, sendSMSAsync) ==
    IF ~ isSMSAvailable(isAvailableAsync)
    THEN [value |-> FALSE, sendCalls |-> <<>>]
    ELSE IF contacts = None \/ Len(Get(contacts)) = 0
    THEN [value |-> FALSE, sendCalls |-> <<>>]
    ELSE IF messageThrows
    THEN [value |-> FALSE, sendCalls |-> <<>>]
    ELSE LET phoneNumbers == EmergencyPhoneNumbers(Get(contacts))
         IN  IF Len(phoneNumbers) = 0
             THEN [value |-> FALSE, sendCalls |-> <<>>]
             ELSE IF Threw(sendSMSAsync)
             THEN [value |-> FALSE, sendCalls |-> <<phoneNumbers>>]
             ELSE [ value |-> sendSMSAsync.result = "sent",
                    sendCalls |-> <<phoneNumbers>> ]

(***************************************************************************)
(* Voice recognition (src/README.md, the utils/ai.js listing; toggled by   *)
(* HomeScreen.toggleVoiceSOS and SettingsScreen.toggleSetting)             *)
(*                                                                         *)
(* The variable voice is a record:                                         *)
(*   active      voiceRecognitionActive                                    *)
(*   callback    voiceRecognitionCallback: None for null, else the name of *)
(*               the function registered                                   *)
(*   recogniser  the Voice library's recogniser: "idle", "starting" (start *)
(*               called and not yet settled) or "listening"                *)
(*   calls       for each caller, where its call of startVoiceRecognition  *)
(*               or stopVoiceRecognition waits: "none", "isAvailable",     *)
(*               "start" or "stop"                                         *)
(*   given       for each caller, the callback its call in flight was      *)
(*               given                                                     *)
(*   switch      for each screen, its voice switch: HomeScreen's           *)
(*               voiceSOSActive, SettingsScreen's settings.voiceSOS        *)
(*   timers      the restart timers set by onSpeechError and not yet fired *)
(*   errors      the speech errors so far                                  *)
(*   begun       the calls of startVoiceRecognition the screens have made  *)
(*   log         the calls of Voice.start so far: by whom, the callback    *)
(*               registered for it, the recogniser's state at the call     *)
(*   restartReturns  the calls made by restart timers that have returned   *)
(*   homeMounted HomeScreen is mounted                                     *)
(*   stopped     a call of stopVoiceRecognition has stopped recognition    *)
(*               with no screen's call of startVoiceRecognition in flight, *)
(*               and no screen has called startVoiceRecognition since      *)
(*                                                                         *)
(* A caller is a screen or "restart", the callback of a restart timer.     *)
(* An async function runs from one await to the next without interruption; *)
(* other events are delivered while it waits.  A speech error ends the     *)
(* recogniser's session.                                                   *)
(***************************************************************************)

Screens == {"home", "settings"}

Callers == Screens \cup {"restart"}

\* The callback a screen gives: handleVoiceSOS, or SettingsScreen's arrow
\* function.
CallbackOf(screen) ==
    IF screen = "home" THEN "handleVoiceSOS" ELSE "settingsCallback"

\* The module as loaded, the recogniser idle, both switches off.
VoiceModule ==
    [ active |-> FALSE, callback |-> None, recogniser |-> "idle",
      calls |-> [c \in Callers |-> "none"],
      given |-> [c \in Callers |-> None],
      switch |-> [s \in Screens |-> FALSE],
      timers |-> 0, errors |-> 0, begun |-> 0,
      log |-> <<>>, restartReturns |-> 0, homeMounted |-> TRUE,
      stopped |-> FALSE ]

\* A call of startVoiceRecognition returns success to its caller:
\* toggleVoiceSOS sets voiceSOSActive and toggleSetting saves voiceSOS when
\* it is true; a restart timer looks at nothing.
StartReturns(v, c, success) ==
    LET w == [v EXCEPT !.calls[c] = "none", !.given[c] = None]
    IN  IF c = "restart" THEN [w EXCEPT !.restartReturns = @ + 1]
        ELSE IF success THEN [w EXCEPT !.switch[c] = TRUE]
        ELSE w

\* startVoiceRecognition(callback) to its first await: true at once when
\* voiceRecognitionActive, else await Voice.isAvailable().
startVoiceRecognition(v, c, callback) ==
    LET w == [v EXCEPT !.stopped = IF c \in Screens THEN FALSE ELSE @]
    IN  IF w.active THEN StartReturns(w, c, TRUE)
        ELSE [w EXCEPT !.calls[c] = "isAvailable", !.given[c] = callback]

\* startVoiceRecognition from Voice.isAvailable() settled to its second
\* await: false when not available, else the callback is registered and
\* Voice.start('en-US') called.
AfterIsAvailable(v, c, available) ==
    IF ~ available THEN StartReturns(v, c, FALSE)
    ELSE [v EXCEPT !.callback = v.given[c],
                   !.log = Append(@, [ by |-> c, callback |-> v.given[c],
                                       recogniser |-> v.recogniser ]),
                   !.recogniser = IF @ = "idle" THEN "starting" ELSE @,
                   !.calls[c] = "start"]

\* startVoiceRecognition from Voice.start settled: voiceRecognitionActive
\* and true when it resolved, false from the catch when it rejected.
AfterStart(v, c, started) ==
    IF started
    THEN StartReturns([v EXCEPT !.active = TRUE, !.recogniser = "listening"],
                      c, TRUE)
    ELSE StartReturns([v EXCEPT !.recogniser =
                                    IF @ = "starting" THEN "idle" ELSE @],
                      c, FALSE)

\* A call of stopVoiceRecognition returns: toggleVoiceSOS sets
\* voiceSOSActive false and toggleSetting saves voiceSOS false, whatever
\* was returned.
StopReturns(v, c) ==
    [v EXCEPT !.calls[c] = "none", !.switch[c] = FALSE]

\* stopVoiceRecognition() to its await: true at once unless
\* voiceRecognitionActive, else await Voice.stop().
stopVoiceRecognition(v, c) ==
    IF ~ v.active THEN StopReturns(v, c)
    ELSE [v EXCEPT !.calls[c] = "stop"]

\* stopVoiceRecognition from Voice.stop settled: the flag and the callback
\* are cleared when it resolved.
AfterStop(v, c, stopped) ==
    IF stopped
    THEN StopReturns([v EXCEPT !.active = FALSE, !.callback = None,
                               !.recogniser = "idle",
                               !.stopped = \A s \in Screens :
                                   v.calls[s] \notin {"isAvailable", "start"}],
                     c)
    ELSE StopReturns(v, c)

\* onSpeechError(e): a restart timer of 1000 ms when voiceRecognitionActive.
onSpeechError(v) ==
    IF v.active THEN [v EXCEPT !.timers = @ + 1] ELSE v

\* The voiceSOSActive that the cleanup of HomeScreen's mount effect reads.
\* The effect has no dependencies, so it and its cleanup are the closures of
\* the first render, where voiceSOSActive is useState's initial false.
CleanupVoiceSOSActive == FALSE

\* HomeScreen unmounts: the cleanup of its mount effect runs,
\* if (voiceSOSActive) stopVoiceRecognition().
cleanup(v) ==
    LET w == [v EXCEPT !.homeMounted = FALSE]
    IN  IF CleanupVoiceSOSActive THEN stopVoiceRecognition(w, "home") ELSE w

\* The restart timer's callback:
\* startVoiceRecognition(voiceRecognitionCallback).
RestartTimer(v) ==
    startVoiceRecognition([v EXCEPT !.timers = @ - 1], "restart", v.callback)

(***************************************************************************)
(* Inputs of the risk scorer                                               *)
(***************************************************************************)

\* Date.getHours() and Date.getDay() (0 is Sunday, 6 is Saturday).
Hours == 0 .. 23

DaysOfWeek == 0 .. 6

\* The times <<dayOfWeek, hour>> at which calculateRiskScore is called:
\* one or more for each value calculateTimeRisk takes, with the hours next
\* to a branch boundary (5, 6, 7, 17, 18, 22) and the two times the
\* specification's scenarios name (Monday 14h, Saturday 23h).
Times ==
    { <<1, 14>>, <<6, 23>>, <<0, 5>>, <<3, 6>>, <<5, 18>>, <<0, 7>>,
      <<6, 17>>, <<2, 22>> }

\* Math.random() * 30 lies in [0, 30): its ends and two values between.
RandomFactors == {0, 10, 20, 29}

\* weather: absent, or an object whose fields may each be absent.
Weathers ==
    { None,
      Some([visibility |-> Some(5000), precipitation |-> Some(0), temperature |-> Some(20)]),
      Some([visibility |-> Some(999), precipitation |-> None, temperature |-> None]),
      Some([visibility |-> Some(999), precipitation |-> Some(2), temperature |-> Some(-1)]) }

StationaryTimes == {None, Some(300000), Some(300001)}

Speeds == {None, Some(51)}

\* The boolean flags calculateRiskScore and its helpers read.
Flags ==
    { "isAlone", "isDarkArea", "isPoorLighting", "hasRecentIncidents",
      "isWeekend", "isStationary", "isDistracted" }

\* The additionalFactors objects: an absent or false flag is FALSE.
FactorObjects ==
    [ isAlone : BOOLEAN, isDarkArea : BOOLEAN, isPoorLighting : BOOLEAN,
      hasRecentIncidents : BOOLEAN, isWeekend : BOOLEAN,
      isStationary : BOOLEAN, isDistracted : BOOLEAN,
      stationaryTime : StationaryTimes, speed : Speeds, weather : Weathers ]

\* The factors calculateBehavioralRisk reads: every combination, with the
\* numbers at and next to the two thresholds.
BehavioralFactors ==
    [ isStationary : BOOLEAN,
      stationaryTime : {None, Some(0), Some(300000), Some(300001)},
      speed : {None, Some(50), Some(51)},
      isAlone : BOOLEAN, isDistracted : BOOLEAN ]

\* The factors calculateEnvironmentalRisk reads: weather absent, or each
\* of its fields absent or at or next to its threshold.
EnvironmentalFactors ==
    [ weather : {None} \cup
                { Some(w) : w \in [ visibility : {None, Some(999), Some(1000)},
                                    precipitation : {None, Some(0), Some(1)},
                                    temperature : {None, Some(-1), Some(0)} ] },
      isDarkArea : BOOLEAN, isPoorLighting : BOOLEAN ]

(***************************************************************************)
(* Inputs of the safe-place finder                                         *)
(***************************************************************************)

\* The origins <<latitude, longitude>> of a query: the seven distinct
\* coordinates of the reference set, two points between them (40.7580,
\* -73.9855 and 40.7400, -73.9900) and one some 300 km from all of them
\* (42.3601, -71.0589).
Origins == DOMAIN Haversine

\* maxDistance: absent (the default 5000), or a whole number of metres.
MaxDistances ==
    { None, Some(-1), Some(0), Some(1), Some(690), Some(691), Some(1800),
      Some(2500), Some(5000), Some(6100), Some(10000), Some(400000) }

\* The largest limit of the range 0 .. MaxLimit a query is made with.
MaxLimit == 11

\* limit: absent (the default 10), 0 .. MaxLimit, or MapScreen's 20.
Limits == {None, Some(20)} \cup {Some(n) : n \in 0 .. MaxLimit}

\* type: the three types of the reference set and one it does not hold.
PlaceTypes == {"police", "hospital", "mall", "pharmacy"}

(***************************************************************************)
(* Inputs of the contact book                                              *)
(***************************************************************************)

\* The phone numbers typed into the contact form: ten digits with
\* punctuation, and eleven digits beginning with 1.
Phones ==
    { <<"5", "5", "5", "-", "0", "1", "0", "-", "0", "0", "0", "1">>,
      <<"1", "5", "5", "5", "0", "1", "0", "0", "0", "0", "2">> }

\* The most contacts added.
MaxContacts == 2

\* The most starts of the app.
MaxLaunches == 2

(***************************************************************************)
(* Inputs of the emergency SMS                                             *)
(***************************************************************************)

\* The most contacts given to sendEmergencySMS.
MaxGiven == 2

\* A contact given: its phone undefined, empty or a number, its
\* isEmergency set or not.
GivenContacts ==
    [ phone : {None, Some(<<>>)} \cup {Some(p) : p \in Phones},
      isEmergency : BOOLEAN ]

\* contacts: null, or an array of at most MaxGiven contacts.
GivenContactLists ==
    {None} \cup UNION { {Some(l) : l \in [1 .. n -> GivenContacts]} : n \in 0 .. MaxGiven }

\* SMS.isAvailableAsync(): resolves to a boolean or rejects.
IsAvailableResults ==
    {[resolved |-> TRUE], [resolved |-> FALSE], Throw("unavailable")}

\* SMS.sendSMSAsync(): resolves to {result} or rejects.
SendResults ==
    { [result |-> "sent"], [result |-> "cancelled"], [result |-> "unknown"],
      Throw("send failed") }

(***************************************************************************)
(* Inputs of the repeated calls                                            *)
(***************************************************************************)

\* The factor objects of the repeated calls: nothing set, or isAlone, or
\* isDarkArea with a weather of low visibility.
RepeatedFactorObjects ==
    { f \in FactorObjects :
        /\ ~ f.isPoorLighting /\ ~ f.hasRecentIncidents /\ ~ f.isWeekend
        /\ ~ f.isStationary /\ ~ f.isDistracted
        /\ f.stationaryTime = None /\ f.speed = None
        /\ ~ (f.isAlone /\ f.isDarkArea)
        /\ f.weather # None <=> f.isDarkArea
        /\ f.weather # None => Get(f.weather).precipitation = None }

\* The calls made twice: the function and its arguments, the time and the
\* location-risk value among them.
RepeatedCalls ==
    { [ op |-> "calculateRiskScore",
        args |-> [ dayOfWeek |-> t[1], hour |-> t[2], random |-> random,
                   locationThrows |-> FALSE, additionalFactors |-> Some(f) ] ] :
        t \in Times, random \in {0, 29}, f \in RepeatedFactorObjects }
    \cup
    { [ op |-> "findNearestSafePlaces",
        args |-> [ latitude |-> origin[1], longitude |-> origin[2],
                   maxDistance |-> maxDistance, limit |-> limit ] ] :
        origin \in Origins, maxDistance \in {None, Some(2500)},
        limit \in {None, Some(1)} }
    \cup
    { [ op |-> "findNearestSafePlaceByType",
        args |-> [ latitude |-> origin[1], longitude |-> origin[2],
                   type |-> type, maxDistance |-> None ] ] :
        origin \in Origins, type \in PlaceTypes }

\* What a call returns.
Returned(call) ==
    LET a == call.args
    IN  CASE call.op = "calculateRiskScore" ->
               calculateRiskScore(a.hour, a.dayOfWeek, a.random, a.locationThrows,
                                  a.additionalFactors)
          [] call.op = "findNearestSafePlaces" ->
               findNearestSafePlaces(a.latitude, a.longitude, a.maxDistance, a.limit)
          [] call.op = "findNearestSafePlaceByType" ->
               findNearestSafePlaceByType(a.latitude, a.longitude, a.type,
                                          a.maxDistance)

(***************************************************************************)
(* Inputs of voice recognition                                             *)
(***************************************************************************)

\* The most calls of startVoiceRecognition the screens make.
MaxStartCalls == 3

\* The most speech errors.
MaxSpeechErrors == 2

(***************************************************************************)
(* The stored histories (utils/storage.js)                                 *)
(***************************************************************************)

\* The three histories AsyncStorage holds.
Kinds == {"emergency", "location", "reports"}

\* The most entries storeEmergencyEvent keeps.
EmergencyHistoryCap == 100

\* The most entries storeLocationUpdate keeps.
LocationHistoryCap == 50

\* The most entries storeSafetyReport keeps.
SafetyReportsCap == 200

\* An entry is named by its rank among the entries of its kind ever stored:
\* the first stored is 1.  A history that has had n entries stored and none
\* dropped is n, n - 1, ..., 1.
Stored(n) == [i \in 1 .. n |-> n - i + 1]

\* The histories: list[k] is what AsyncStorage holds under the key of kind k,
\* stored[k] counts the entries of kind k ever stored, calls the calls made.
Histories(emergency, location, reports) ==
    [ list |-> [emergency |-> Stored(emergency), location |-> Stored(location),
                reports |-> Stored(reports)],
      stored |-> [emergency |-> emergency, location |-> location,
                  reports |-> reports],
      calls |-> 0 ]

KeepNewest_Uncapped(list, entry, cap) == <<entry>> \o list

\* [entry, ...history].slice(0, cap)
KeepNewest(list, entry, cap) == Slice(<<entry>> \o list, cap)

\* A store function: it reads the history of its kind, puts the new entry
\* before it, keeps the first cap and writes the result back.
StoreEntry(h, kind, cap) ==
    [h EXCEPT !.list[kind] = KeepNewest(@, h.stored[kind] + 1, cap),
              !.stored[kind] = @ + 1,
              !.calls = @ + 1]

storeEmergencyEvent(h) == StoreEntry(h, "emergency", EmergencyHistoryCap)

storeLocationUpdate(h) == StoreEntry(h, "location", LocationHistoryCap)

storeSafetyReport(h) == StoreEntry(h, "reports", SafetyReportsCap)

(***************************************************************************)
(* Inputs of the stored histories                                          *)
(***************************************************************************)

\* The most store calls followed in one run.
MaxStores == 4

\* What AsyncStorage holds at launch: each history is empty or one short of
\* its cap.
StoredHistories ==
    { Histories(e, l, r) : e \in {0, EmergencyHistoryCap - 1},
                           l \in {0, LocationHistoryCap - 1},
                           r \in {0, SafetyReportsCap - 1} }

(***************************************************************************)
(* The periodic location updates (src/src/utils/sms.js)                    *)
(*                                                                         *)
(* The variable updates is a record:                                       *)
(*   interval   "none" before startPeriodicLocationUpdates, "set" while    *)
(*              the interval runs, "cleared" after stop()                  *)
(*   contacts   the contacts the updates are sent to                       *)
(*   ticks      for each run of the interval's callback, in the order they *)
(*              began, where it waits: "location" (getCurrentLocation),    *)
(*              "isAvailable" (sendLocationSMS's isSMSAvailable),          *)
(*              "sendSMS" (SMS.sendSMSAsync) or "done"                     *)
(*   sendCalls  the calls of SMS.sendSMSAsync made                         *)
(*   afterStop  those of them made after stop()                            *)
(***************************************************************************)

PeriodicUpdates ==
    [ interval |-> "none", contacts |-> <<>>, ticks |-> <<>>,
      sendCalls |-> 0, afterStop |-> 0 ]

\* contacts.filter(contact => contact.phone).map(contact => contact.phone)
LocationPhoneNumbers(contacts) ==
    LET Keep(contact) == contact.phone # None /\ Get(contact.phone) # <<>>
        kept == SelectSeq(contacts, Keep)
    IN  [i \in 1 .. Len(kept) |-> Get(kept[i].phone)]

\* startPeriodicLocationUpdates(contacts, intervalMinutes): sets the interval
\* and returns the subscription.
startPeriodicLocationUpdates(u, contacts) ==
    [u EXCEPT !.interval = "set", !.contacts = contacts]

\* The interval fires: its callback begins and awaits getCurrentLocation().
intervalCallback(u) == [u EXCEPT !.ticks = Append(@, "location")]

\* getCurrentLocation() settles for run i of the callback: with a location
\* the callback calls sendLocationSMS, which awaits isSMSAvailable();
\* without one (null, or a rejection caught) the run ends.
AfterGetCurrentLocation(u, i, location) ==
    [u EXCEPT !.ticks[i] = IF location = None THEN "done" ELSE "isAvailable"]

\* isSMSAvailable() settles for run i: sendLocationSMS returns false when
\* SMS is unavailable or no contact has a phone, and else calls
\* SMS.sendSMSAsync(phoneNumbers, locationMessage).
AfterIsSMSAvailable(u, i, isAvailableAsync) ==
    IF \/ ~ isSMSAvailable(isAvailableAsync)
       \/ Len(u.contacts) = 0
       \/ Len(LocationPhoneNumbers(u.contacts)) = 0
    THEN [u EXCEPT !.ticks[i] = "done"]
    ELSE [u EXCEPT !.ticks[i] = "sendSMS",
                   !.sendCalls = @ + 1,
                   !.afterStop = IF u.interval = "cleared" THEN @ + 1 ELSE @]

\* SMS.sendSMSAsync settles for run i: sendLocationSMS returns and the run
\* ends.
AfterSendSMS(u, i) == [u EXCEPT !.ticks[i] = "done"]

\* subscription.stop(): clearInterval(intervalId)
stop(u) == [u EXCEPT !.interval = "cleared"]

(***************************************************************************)
(* Inputs of the periodic location updates                                 *)
(***************************************************************************)

\* The most runs of the interval's callback followed.
MaxTicks == 3

\* The contacts the updates are started with.
UpdateContactLists ==
    { <<>>,
      <<[phone |-> None, isEmergency |-> TRUE]>>,
      <<[phone |-> Some(<<"5", "5", "5">>), isEmergency |-> FALSE]>> }

\* What getCurrentLocation() resolves to: null or a location.
Locations == {None, Some("here")}

(***************************************************************************)
(* SettingsScreen (src/src/screens/MapScreen.js)                           *)
(*                                                                         *)
(* The settings are followed by two of their keys, voiceSOS and nightMode. *)
(* The variable settings is a record:                                      *)
(*   memory   the settings state of the screen                             *)
(*   stored   what AsyncStorage holds under USER_SETTINGS: None before the  *)
(*            first write                                                  *)
(*   toggle   the toggleSetting('voiceSOS') in flight, if any: the         *)
(*            newSettings it computed when the switch was pressed and the  *)
(*            call it awaits, "start" or "stop"                            *)
(*   saves    the newSettings of the saveSettings calls awaiting           *)
(*            storeSettings, in order                                      *)
(*   presses  the switches pressed so far                                  *)
(*   alerts   the alerts shown for a failed startVoiceRecognition          *)
(***************************************************************************)

SettingKeys == {"voiceSOS", "nightMode"}

\* useState({..., nightMode: false, ..., voiceSOS: false})
SettingsScreen ==
    [ memory |-> [voiceSOS |-> FALSE, nightMode |-> FALSE],
      stored |-> None, toggle |-> None, saves |-> <<>>,
      presses |-> 0, alerts |-> 0 ]

\* saveSettings(newSettings) to its await: storeSettings(newSettings).
saveSettings(s, newSettings) == [s EXCEPT !.saves = Append(@, newSettings)]

\* saveSettings from storeSettings settled: setSettings(newSettings).
\* storeData returns false when the write failed, it does not throw.
AfterStoreSettings(s, written) ==
    [s EXCEPT !.stored = IF written THEN Some(Head(s.saves)) ELSE @,
              !.memory = Head(s.saves),
              !.saves = Tail(@)]

\* toggleSetting(settingKey) to its first await: newSettings is computed
\* from the settings of the render; for voiceSOS startVoiceRecognition or
\* stopVoiceRecognition is awaited, any other key is saved at once.
toggleSetting(s, settingKey) ==
    LET newSettings == [s.memory EXCEPT ![settingKey] = ~ @]
        t == [s EXCEPT !.presses = @ + 1]
    IN  IF settingKey = "voiceSOS"
        THEN [t EXCEPT !.toggle =
                  Some([ newSettings |-> newSettings,
                         awaits |-> IF newSettings.voiceSOS THEN "start"
                                    ELSE "stop" ])]
        ELSE saveSettings(t, newSettings)

AfterStartVoiceRecognition_SavedAnyway(s, success) ==
    saveSettings([s EXCEPT !.toggle = None,
                           !.alerts = IF Threw(success) \/ ~ success.resolved
                                      THEN @ + 1 ELSE @],
                 Get(s.toggle).newSettings)

\* toggleSetting from startVoiceRecognition settled: an alert and a return
\* when it resolved to false or rejected, else saveSettings(newSettings).
\* success is [resolved |-> a boolean] or Throw(e).
AfterStartVoiceRecognition(s, success) ==
    IF Threw(success) \/ ~ success.resolved
    THEN [s EXCEPT !.toggle = None, !.alerts = @ + 1]
    ELSE saveSettings([s EXCEPT !.toggle = None], Get(s.toggle).newSettings)

\* toggleSetting from stopVoiceRecognition settled: it resolves, to true or
\* false, and saveSettings(newSettings) follows.
AfterStopVoiceRecognition(s) ==
    saveSettings([s EXCEPT !.toggle = None], Get(s.toggle).newSettings)

(***************************************************************************)
(* Inputs of SettingsScreen                                                *)
(***************************************************************************)

\* The most switches pressed.
MaxToggles == 4

\* What startVoiceRecognition settles to.
StartResults == {[resolved |-> TRUE], [resolved |-> FALSE], Throw("start failed")}

(***************************************************************************)
(* The contact functions of utils/storage.js (src/README.md) and           *)
(* ContactsScreen.saveContacts (src/unnamed/part_000), with writes that    *)
(* may fail                                                                *)
(*                                                                         *)
(* A contact is [id, by, rev]: its id, the number of the call that added   *)
(* it (0 for ContactsScreen) and the number of updates applied to it.      *)
(* The variable api is a record:                                           *)
(*   stored     what AsyncStorage holds under TRUSTED_CONTACTS             *)
(*   now        Date.now(), in milliseconds                                *)
(*   calls      the calls of addContact, updateContact and deleteContact   *)
(*              made, in order.  Each is [kind, given, stage, updated,     *)
(*              written, result]: given is the id the call was given (for  *)
(*              addContact the id field of its contact argument, if any),  *)
(*              stage is "read" (awaiting getStoredContacts), "write"      *)
(*              (awaiting storeContacts) or "done", updated the            *)
(*              updatedContacts it computed, written whether its write was *)
(*              made, result what it returned: "contact", "null", "true"   *)
(*              or "false"                                                 *)
(*   overlapped a call was begun, or ContactsScreen saved, while a call    *)
(*              had not returned                                           *)
(*   displayed  the contacts state of ContactsScreen                       *)
(*   saves      the calls of ContactsScreen.saveContacts made              *)
(***************************************************************************)

StorageApi ==
    [ stored |-> <<>>, now |-> 1, calls |-> <<>>, overlapped |-> FALSE,
      displayed |-> <<>>, saves |-> 0 ]

\* addContact(contact), updateContact(contactId, updates) or
\* deleteContact(contactId) is called: it awaits getStoredContacts().
BeginCall(a, kind, given) ==
    [a EXCEPT !.calls = Append(@, [ kind |-> kind, given |-> given,
                                    stage |-> "read", updated |-> <<>>,
                                    written |-> FALSE, result |-> "none" ]),
              !.overlapped = @ \/ \E i \in 1 .. Len(a.calls) :
                                      a.calls[i].stage # "done"]

\* addContact: newContact = {id: Date.now().toString(), ...contact, ...}.
\* An id field of contact replaces the id made from the clock.
NewContact(a, i) ==
    [ id |-> Default(a.calls[i].given, a.now), by |-> i, rev |-> 0 ]

\* The updatedContacts of call i, from the contacts read.
UpdatedContacts(a, i, contacts) ==
    LET call == a.calls[i]
    IN  CASE call.kind = "add" -> Append(contacts, NewContact(a, i))
          [] call.kind = "update" ->
                [k \in 1 .. Len(contacts) |->
                    IF contacts[k].id = Get(call.given)
                    THEN [contacts[k] EXCEPT !.rev = @ + 1]
                    ELSE contacts[k]]
          [] call.kind = "delete" ->
                SelectSeq(contacts, LAMBDA contact : contact.id # Get(call.given))

\* Call i from getStoredContacts() settled to its second await:
\* storeContacts(updatedContacts).
AfterGetStoredContacts(a, i) ==
    [a EXCEPT !.calls[i].stage = "write",
              !.calls[i].updated = UpdatedContacts(a, i, a.stored)]

\* What call i returns after storeContacts: storeData catches a failed
\* write and returns false, which the call does not look at.
Reported_Checked(kind, written) ==
    IF kind = "add" THEN (IF written THEN "contact" ELSE "null")
    ELSE (IF written THEN "true" ELSE "false")

Reported(kind, written) == IF kind = "add" THEN "contact" ELSE "true"

\* Call i from storeContacts settled to its return.
AfterStoreContacts(a, i, written) ==
    [a EXCEPT !.stored = IF written THEN a.calls[i].updated ELSE @,
              !.calls[i].stage = "done",
              !.calls[i].written = written,
              !.calls[i].result = Reported(a.calls[i].kind, written)]

\* ContactsScreen.saveContacts(updatedContacts):
\* await storeContacts(updatedContacts); setContacts(updatedContacts).
saveContacts(a, updatedContacts, written) ==
    [a EXCEPT !.stored = IF written THEN updatedContacts ELSE @,
              !.displayed = updatedContacts,
              !.saves = @ + 1,
              !.overlapped = @ \/ \E i \in 1 .. Len(a.calls) :
                                      a.calls[i].stage # "done"]

\* ContactsScreen.addContact: newContact = {id: Date.now().toString(), ...}.
ScreenNewContact(a) == [id |-> a.now, by |-> 0, rev |-> 0]

(***************************************************************************)
(* Inputs of the contact functions                                         *)
(***************************************************************************)

\* The most calls of the contact functions and of saveContacts together.
MaxApiCalls == 3

\* The last millisecond of the clock followed.
MaxNow == 2

\* The ids given to the calls.
GivenIds == 1 .. 2

(***************************************************************************)
(* The calls                                                               *)
(***************************************************************************)

\* The longest press followed, in ticks of the hold timer.
MaxHoldTicks == 41

\* The most presses followed.
MaxPresses == 2

\* The state at launch, the stored histories apart.
InitApp ==
    /\ op = "idle"
    /\ args = NoValue
    /\ ret = NoValue
    /\ history = NoValue
    /\ sos = SOSButton(TRUE)
    /\ store = <<>>
    /\ clock = 0
    /\ home = HomeScreen
    /\ contactsScreen = None
    /\ composer = None
    /\ voice = VoiceModule
    /\ updates = PeriodicUpdates
    /\ settings = SettingsScreen
    /\ api = StorageApi

Init ==
    /\ InitApp
    /\ histories = Histories(0, 0, 0)

\* A launch that finds stored histories.
InitHistory ==
    /\ InitApp
    /\ histories \in StoredHistories

\* A call of storeEmergencyEvent(event).
CallStoreEmergencyEvent ==
    /\ histories.calls < MaxStores
    /\ histories' = storeEmergencyEvent(histories)
    /\ UNCHANGED <<callVars, history, sos, bookVars, voice, updates, settings, api>>

\* A call of storeLocationUpdate(location).
CallStoreLocationUpdate ==
    /\ histories.calls < MaxStores
    /\ histories' = storeLocationUpdate(histories)
    /\ UNCHANGED <<callVars, history, sos, bookVars, voice, updates, settings, api>>

\* A call of storeSafetyReport(report).
CallStoreSafetyReport ==
    /\ histories.calls < MaxStores
    /\ histories' = storeSafetyReport(histories)
    /\ UNCHANGED <<callVars, history, sos, bookVars, voice, updates, settings, api>>

\* A call of calculateTimeRisk(hour, dayOfWeek).
CallCalculateTimeRisk ==
    /\ op = "idle"
    /\ \E hour \in Hours, dayOfWeek \in DaysOfWeek :
         /\ args' = [hour |-> hour, dayOfWeek |-> dayOfWeek]
         /\ ret' = calculateTimeRisk(hour, dayOfWeek)
    /\ op' = "calculateTimeRisk"
    /\ UNCHANGED appVars

\* A call of calculateRiskScore(latitude, longitude, additionalFactors):
\* a null additionalFactors, or any factor object.
CallCalculateRiskScore ==
    /\ op = "idle"
    /\ \E t \in Times, random \in RandomFactors, locationThrows \in BOOLEAN,
          additionalFactors \in {None} \cup {Some(f) : f \in FactorObjects} :
         /\ locationThrows => random = 0
         /\ args' = [ dayOfWeek |-> t[1], hour |-> t[2], random |-> random,
                      locationThrows |-> locationThrows,
                      additionalFactors |-> additionalFactors ]
         /\ ret' = calculateRiskScore(t[2], t[1], random, locationThrows,
                                      additionalFactors)
    /\ op' = "calculateRiskScore"
    /\ UNCHANGED appVars

\* A call of calculateBehavioralRisk(factors), as calculateRiskScore
\* makes it.
CallCalculateBehavioralRisk ==
    /\ op = "idle"
    /\ \E factors \in BehavioralFactors :
         /\ args' = [factors |-> factors]
         /\ ret' = calculateBehavioralRisk(factors)
    /\ op' = "calculateBehavioralRisk"
    /\ UNCHANGED appVars

\* A call of calculateEnvironmentalRisk(factors), as calculateRiskScore
\* makes it.
CallCalculateEnvironmentalRisk ==
    /\ op = "idle"
    /\ \E factors \in EnvironmentalFactors :
         /\ args' = [factors |-> factors]
         /\ ret' = calculateEnvironmentalRisk(factors)
    /\ op' = "calculateEnvironmentalRisk"
    /\ UNCHANGED appVars

\* Two calls of calculateDistance: from a to b and from b to a.
CallCalculateDistance ==
    /\ op = "idle"
    /\ \E a \in Origins, b \in Origins :
         /\ args' = [a |-> a, b |-> b]
         /\ ret' = [ there |-> calculateDistance(a[1], a[2], b[1], b[2]),
                     back |-> calculateDistance(b[1], b[2], a[1], a[2]) ]
    /\ op' = "calculateDistance"
    /\ UNCHANGED appVars

\* A call of findNearestSafePlaces(latitude, longitude, maxDistance, limit).
CallFindNearestSafePlaces ==
    /\ op = "idle"
    /\ \E origin \in Origins, maxDistance \in MaxDistances, limit \in Limits :
         /\ args' = [ latitude |-> origin[1], longitude |-> origin[2],
                      maxDistance |-> maxDistance, limit |-> limit ]
         /\ ret' = findNearestSafePlaces(origin[1], origin[2], maxDistance, limit)
    /\ op' = "findNearestSafePlaces"
    /\ UNCHANGED appVars

\* A call of findNearestSafePlaceByType(latitude, longitude, type,
\* maxDistance).
CallFindNearestSafePlaceByType ==
    /\ op = "idle"
    /\ \E origin \in Origins, type \in PlaceTypes, maxDistance \in MaxDistances :
         /\ args' = [ latitude |-> origin[1], longitude |-> origin[2],
                      type |-> type, maxDistance |-> maxDistance ]
         /\ ret' = findNearestSafePlaceByType(origin[1], origin[2], type, maxDistance)
    /\ op' = "findNearestSafePlaceByType"
    /\ UNCHANGED appVars

\* A call of sendEmergencySMS(contacts, location, customMessage).
CallSendEmergencySMS ==
    /\ op = "idle"
    /\ \E contacts \in GivenContactLists, isAvailableAsync \in IsAvailableResults,
          messageThrows \in BOOLEAN, sendSMSAsync \in SendResults :
         /\ args' = [ contacts |-> contacts, isAvailableAsync |-> isAvailableAsync,
                      messageThrows |-> messageThrows,
                      sendSMSAsync |-> sendSMSAsync ]
         /\ ret' = sendEmergencySMS(contacts, isAvailableAsync, messageThrows,
                                    sendSMSAsync)
    /\ op' = "sendEmergencySMS"
    /\ UNCHANGED appVars

\* A first call begins and waits at its await (calculateLocationRisk,
\* loadSafePlaces): it is kept in history, its result pending.
FirstCallBegins ==
    /\ op = "idle"
    /\ history = NoValue
    /\ \E call \in RepeatedCalls :
         history' = [ op |-> call.op, args |-> call.args, settled |-> FALSE,
                      ret |-> NoValue ]
    /\ UNCHANGED <<callVars, otherVars, sos, bookVars, voice>>

\* The first call resumes and returns.
FirstCallReturns ==
    /\ history # NoValue
    /\ ~ history.settled
    /\ history' = [history EXCEPT !.settled = TRUE, !.ret = Returned(history)]
    /\ UNCHANGED <<callVars, otherVars, sos, bookVars, voice>>

\* Another call is made and returns, after the first or while the first
\* waits.
LaterCall ==
    /\ op = "idle"
    /\ history # NoValue
    /\ \E call \in RepeatedCalls :
         /\ op' = call.op
         /\ args' = call.args
         /\ ret' = Returned(call)
    /\ UNCHANGED appVars

\* The result of the later call is dropped: one more call can follow.
LaterCallDropped ==
    /\ op # "idle"
    /\ history # NoValue
    /\ op' = "idle"
    /\ args' = NoValue
    /\ ret' = NoValue
    /\ UNCHANGED appVars

\* The app is closed and started again: HomeScreen mounts anew, the
\* stored contacts stay.
AppLaunch ==
    /\ home.launch < MaxLaunches
    /\ home' = [HomeScreen EXCEPT !.launch = home.launch + 1]
    /\ contactsScreen' = None
    /\ composer' = None
    /\ UNCHANGED <<callVars, otherVars, history, sos, store, clock, voice>>

\* HomeScreen.loadInitialData(): setTrustedContacts(await
\* getStoredContacts()).
HomeLoadInitialData ==
    /\ home.loading
    /\ home' = [home EXCEPT !.loading = FALSE,
                             !.trustedContacts = getStoredContacts]
    /\ UNCHANGED <<callVars, otherVars, history, sos, store, clock, contactsScreen, composer, voice>>

\* The Contacts tab is opened for the first time.
ContactsMount ==
    /\ contactsScreen = None
    /\ contactsScreen' = Some(ContactsScreen)
    /\ UNCHANGED <<callVars, otherVars, history, sos, store, clock, home, composer, voice>>

\* ContactsScreen.loadContacts(): setContacts(await getStoredContacts()).
ContactsLoadContacts ==
    /\ contactsScreen # None
    /\ Get(contactsScreen).loading
    /\ contactsScreen' = Some([loading |-> FALSE, contacts |-> getStoredContacts])
    /\ UNCHANGED <<callVars, otherVars, history, sos, store, clock, home, composer, voice>>

\* ContactsScreen.saveContacts(updatedContacts): await
\* storeContacts(updatedContacts), the write succeeding, then
\* setContacts(updatedContacts).  The operations followed are those made
\* before HomeScreen opens an SMS composer.
SaveContacts(updatedContacts) ==
    /\ composer = None
    /\ store' = updatedContacts
    /\ contactsScreen' = Some([Get(contactsScreen) EXCEPT !.contacts = updatedContacts])
    /\ UNCHANGED <<callVars, otherVars, history, sos, home, composer, voice>>

\* ContactsScreen: the form is filled and Add is pressed.  Date.now() has
\* advanced since the last contact was added.
ContactsAddContact ==
    /\ contactsScreen # None
    /\ clock < MaxContacts
    /\ clock' = clock + 1
    /\ \E phone \in Phones :
         SaveContacts(addContact(Get(contactsScreen).contacts, clock + 1, phone))

\* ContactsScreen: a listed contact is edited and saved.
ContactsUpdateContact ==
    /\ contactsScreen # None
    /\ UNCHANGED clock
    /\ \E id \in Ids(Get(contactsScreen).contacts), phone \in Phones :
         SaveContacts(updateContact(Get(contactsScreen).contacts, id, phone))

\* ContactsScreen: a listed contact is deleted and the prompt confirmed.
ContactsDeleteContact ==
    /\ contactsScreen # None
    /\ UNCHANGED clock
    /\ \E id \in Ids(Get(contactsScreen).contacts) :
         SaveContacts(deleteContact(Get(contactsScreen).contacts, id))

\* ContactsScreen: the emergency switch of a listed contact is pressed.
ContactsToggleEmergencyContact ==
    /\ contactsScreen # None
    /\ UNCHANGED clock
    /\ \E id \in Ids(Get(contactsScreen).contacts) :
         SaveContacts(toggleEmergencyContact(Get(contactsScreen).contacts, id))

\* HomeScreen: the SOS button, enabled, is held and the prompt confirmed:
\* the button calls onPress, which is handleSOSPress.  stored is the
\* stored list at that moment.
HomeSOSPress ==
    /\ ~ SOSButtonDisabled
    /\ composer = None
    /\ \E hasPermission \in BOOLEAN, canOpen \in BOOLEAN :
         LET to == handleSOSPress(home.trustedContacts, hasPermission, canOpen)
         IN  composer' = IF to = None THEN composer
                         ELSE Some([to |-> Get(to), stored |-> store])
    /\ UNCHANGED <<callVars, otherVars, history, sos, store, clock, home, contactsScreen, voice>>

\* A screen's voice switch, off, is pressed: toggleVoiceSOS or
\* toggleSetting('voiceSOS') calls startVoiceRecognition with the screen's
\* callback.  A screen has one call in flight at most.
VoiceSwitchOn ==
    \E s \in Screens :
        /\ s = "home" => voice.homeMounted
        /\ voice.calls[s] = "none"
        /\ ~ voice.switch[s]
        /\ voice.begun < MaxStartCalls
        /\ voice' = startVoiceRecognition([voice EXCEPT !.begun = @ + 1], s,
                                           Some(CallbackOf(s)))
        /\ UNCHANGED <<callVars, otherVars, history, sos, bookVars>>

\* A screen's voice switch, on, is pressed: stopVoiceRecognition.
VoiceSwitchOff ==
    \E s \in Screens :
        /\ s = "home" => voice.homeMounted
        /\ voice.calls[s] = "none"
        /\ voice.switch[s]
        /\ voice' = stopVoiceRecognition(voice, s)
        /\ UNCHANGED <<callVars, otherVars, history, sos, bookVars>>

\* Voice.isAvailable() settles for a waiting call: available, or not (a
\* rejection is caught to the same false).
VoiceIsAvailableSettles ==
    \E c \in Callers, available \in BOOLEAN :
        /\ voice.calls[c] = "isAvailable"
        /\ voice' = AfterIsAvailable(voice, c, available)
        /\ UNCHANGED <<callVars, otherVars, history, sos, bookVars>>

\* Voice.start settles for a waiting call: resolved or rejected.
VoiceStartSettles ==
    \E c \in Callers, started \in BOOLEAN :
        /\ voice.calls[c] = "start"
        /\ voice' = AfterStart(voice, c, started)
        /\ UNCHANGED <<callVars, otherVars, history, sos, bookVars>>

\* Voice.stop settles for a waiting call: resolved or rejected.
VoiceStopSettles ==
    \E c \in Screens, stopped \in BOOLEAN :
        /\ voice.calls[c] = "stop"
        /\ voice' = AfterStop(voice, c, stopped)
        /\ UNCHANGED <<callVars, otherVars, history, sos, bookVars>>

\* The recogniser, listening, reports an error and its session ends:
\* Voice.onSpeechError.
SpeechError ==
    /\ voice.recogniser = "listening"
    /\ voice.errors < MaxSpeechErrors
    /\ voice' = onSpeechError([voice EXCEPT !.recogniser = "idle",
                                            !.errors = @ + 1])
    /\ UNCHANGED <<callVars, otherVars, history, sos, bookVars>>

\* A restart timer fires, 1000 ms after it was set.
RestartTimerFires ==
    /\ voice.timers > 0
    /\ voice.calls["restart"] = "none"
    /\ voice' = RestartTimer(voice)
    /\ UNCHANGED <<callVars, otherVars, history, sos, bookVars>>

\* HomeScreen's first load sets a non-empty trustedContacts: the prop
\* disabled of the button turns false.  No later statement sets it.
SOSEnabled ==
    /\ sos.disabled
    /\ sos' = [sos EXCEPT !.disabled = FALSE]
    /\ UNCHANGED <<callVars, otherVars, history, bookVars, voice>>

\* The finger goes down on the button: TouchableOpacity delivers
\* onPressIn unless it is disabled.
SOSPressIn ==
    /\ ~ sos.touching
    /\ ~ sos.disabled
    /\ sos.presses < MaxPresses
    /\ sos' = handlePressIn(sos)
    /\ UNCHANGED <<callVars, otherVars, history, bookVars, voice>>

\* 100 ms pass with the interval running.
SOSHoldTick ==
    /\ sos.holdInterval
    /\ sos.held < MaxHoldTicks
    /\ sos' = holdTick(sos)
    /\ UNCHANGED <<callVars, otherVars, history, bookVars, voice>>

\* The finger leaves the button: onPressOut.
SOSPressOut ==
    /\ sos.touching
    /\ sos' = handlePressOut(sos)
    /\ UNCHANGED <<callVars, otherVars, history, bookVars, voice>>

\* The user chooses Confirm in an emergency prompt.
SOSConfirm ==
    /\ sos.open > 0
    /\ sos' = confirmPrompt(sos)
    /\ UNCHANGED <<callVars, otherVars, history, bookVars, voice>>

\* The user chooses Cancel in an emergency prompt.
SOSCancel ==
    /\ sos.open > 0
    /\ sos' = cancelPrompt(sos)
    /\ UNCHANGED <<callVars, otherVars, history, bookVars, voice>>

\* The SOS button.
NextSOS ==
    \/ SOSEnabled
    \/ SOSPressIn
    \/ SOSHoldTick
    \/ SOSPressOut
    \/ SOSConfirm
    \/ SOSCancel

\* The contact book: HomeScreen and ContactsScreen.
NextBook ==
    \/ AppLaunch
    \/ HomeLoadInitialData
    \/ ContactsMount
    \/ ContactsLoadContacts
    \/ ContactsAddContact
    \/ ContactsUpdateContact
    \/ ContactsDeleteContact
    \/ ContactsToggleEmergencyContact
    \/ HomeSOSPress

\* Voice recognition: the switches, the recogniser and the timers.
NextVoice ==
    \/ VoiceSwitchOn
    \/ VoiceSwitchOff
    \/ VoiceIsAvailableSettles
    \/ VoiceStartSettles
    \/ VoiceStopSettles
    \/ SpeechError
    \/ RestartTimerFires

\* Calls of the risk scorer and the safe-place finder, repeated.
NextRepeated ==
    \/ FirstCallBegins
    \/ FirstCallReturns
    \/ LaterCall
    \/ LaterCallDropped

\* The calls of the SMS utilities.
NextSms ==
    \/ CallSendEmergencySMS

\* The calls of the risk scorer.
NextRisk ==
    \/ CallCalculateTimeRisk
    \/ CallCalculateRiskScore
    \/ CallCalculateBehavioralRisk
    \/ CallCalculateEnvironmentalRisk

\* The calls of the safe-place finder.
NextPlaces ==
    \/ CallFindNearestSafePlaces
    \/ CallFindNearestSafePlaceByType
    \/ CallCalculateDistance

\* HomeScreen unmounts.
HomeUnmount ==
    /\ voice.homeMounted
    /\ voice' = cleanup(voice)
    /\ UNCHANGED <<callVars, otherVars, history, sos, bookVars>>

\* The voice switches and HomeScreen's unmount.
NextUnmount ==
    \/ VoiceSwitchOn
    \/ VoiceSwitchOff
    \/ VoiceIsAvailableSettles
    \/ VoiceStartSettles
    \/ VoiceStopSettles
    \/ HomeUnmount

\* startPeriodicLocationUpdates(contacts) is called.
StartPeriodicLocationUpdates ==
    /\ updates.interval = "none"
    /\ \E contacts \in UpdateContactLists :
           updates' = startPeriodicLocationUpdates(updates, contacts)
    /\ UNCHANGED <<callVars, history, sos, bookVars, voice, histories, settings, api>>

\* The interval fires.
IntervalFires ==
    /\ updates.interval = "set"
    /\ Len(updates.ticks) < MaxTicks
    /\ updates' = intervalCallback(updates)
    /\ UNCHANGED <<callVars, history, sos, bookVars, voice, histories, settings, api>>

\* getCurrentLocation() settles for a run of the callback.
GetCurrentLocationSettles ==
    /\ \E i \in 1 .. Len(updates.ticks), location \in Locations :
           /\ updates.ticks[i] = "location"
           /\ updates' = AfterGetCurrentLocation(updates, i, location)
    /\ UNCHANGED <<callVars, history, sos, bookVars, voice, histories, settings, api>>

\* isSMSAvailable() settles for a run of the callback.
IsSMSAvailableSettles ==
    /\ \E i \in 1 .. Len(updates.ticks), isAvailableAsync \in IsAvailableResults :
           /\ updates.ticks[i] = "isAvailable"
           /\ updates' = AfterIsSMSAvailable(updates, i, isAvailableAsync)
    /\ UNCHANGED <<callVars, history, sos, bookVars, voice, histories, settings, api>>

\* SMS.sendSMSAsync settles for a run of the callback.
SendSMSSettles ==
    /\ \E i \in 1 .. Len(updates.ticks) :
           /\ updates.ticks[i] = "sendSMS"
           /\ updates' = AfterSendSMS(updates, i)
    /\ UNCHANGED <<callVars, history, sos, bookVars, voice, histories, settings, api>>

\* The caller stops the subscription.
StopUpdates ==
    /\ updates.interval = "set"
    /\ updates' = stop(updates)
    /\ UNCHANGED <<callVars, history, sos, bookVars, voice, histories, settings, api>>

\* The periodic location updates.
NextUpdates ==
    \/ StartPeriodicLocationUpdates
    \/ IntervalFires
    \/ GetCurrentLocationSettles
    \/ IsSMSAvailableSettles
    \/ SendSMSSettles
    \/ StopUpdates

\* A switch of SettingsScreen is pressed.  The Voice SOS switch is not
\* pressed again while its toggleSetting waits.
SettingsToggleSetting ==
    /\ settings.presses < MaxToggles
    /\ \E settingKey \in SettingKeys :
           /\ settingKey = "voiceSOS" => settings.toggle = None
           /\ settings' = toggleSetting(settings, settingKey)
    /\ UNCHANGED <<callVars, history, sos, bookVars, voice, histories, updates, api>>

\* startVoiceRecognition settles for the toggleSetting that waits.
SettingsStartSettles ==
    /\ settings.toggle # None
    /\ Get(settings.toggle).awaits = "start"
    /\ \E success \in StartResults :
           settings' = AfterStartVoiceRecognition(settings, success)
    /\ UNCHANGED <<callVars, history, sos, bookVars, voice, histories, updates, api>>

\* stopVoiceRecognition settles for the toggleSetting that waits.
SettingsStopSettles ==
    /\ settings.toggle # None
    /\ Get(settings.toggle).awaits = "stop"
    /\ settings' = AfterStopVoiceRecognition(settings)
    /\ UNCHANGED <<callVars, history, sos, bookVars, voice, histories, updates, api>>

\* storeSettings settles for the oldest saveSettings that waits: the write
\* was made, or it failed.
SettingsStoreSettles ==
    /\ settings.saves # <<>>
    /\ \E written \in BOOLEAN :
           settings' = AfterStoreSettings(settings, written)
    /\ UNCHANGED <<callVars, history, sos, bookVars, voice, histories, updates, api>>

\* SettingsScreen.
NextSettings ==
    \/ SettingsToggleSetting
    \/ SettingsStartSettles
    \/ SettingsStopSettles
    \/ SettingsStoreSettles

\* addContact(contact) of utils/storage.js is called, contact with an id
\* field or without.
ApiAddContact ==
    /\ Len(api.calls) + api.saves < MaxApiCalls
    /\ \E given \in {None} \cup {Some(id) : id \in GivenIds} :
           api' = BeginCall(api, "add", given)
    /\ UNCHANGED <<callVars, history, sos, bookVars, voice, histories, updates, settings>>

\* updateContact(contactId, updates) of utils/storage.js is called.
ApiUpdateContact ==
    /\ Len(api.calls) + api.saves < MaxApiCalls
    /\ \E contactId \in GivenIds : api' = BeginCall(api, "update", Some(contactId))
    /\ UNCHANGED <<callVars, history, sos, bookVars, voice, histories, updates, settings>>

\* deleteContact(contactId) of utils/storage.js is called.
ApiDeleteContact ==
    /\ Len(api.calls) + api.saves < MaxApiCalls
    /\ \E contactId \in GivenIds : api' = BeginCall(api, "delete", Some(contactId))
    /\ UNCHANGED <<callVars, history, sos, bookVars, voice, histories, updates, settings>>

\* getStoredContacts() settles for a waiting call.
ApiGetStoredContactsSettles ==
    /\ \E i \in 1 .. Len(api.calls) :
           /\ api.calls[i].stage = "read"
           /\ api' = AfterGetStoredContacts(api, i)
    /\ UNCHANGED <<callVars, history, sos, bookVars, voice, histories, updates, settings>>

\* storeContacts settles for a waiting call: the write was made, or failed.
ApiStoreContactsSettles ==
    /\ \E i \in 1 .. Len(api.calls), written \in BOOLEAN :
           /\ api.calls[i].stage = "write"
           /\ api' = AfterStoreContacts(api, i, written)
    /\ UNCHANGED <<callVars, history, sos, bookVars, voice, histories, updates, settings>>

\* A millisecond passes.
ApiTimePasses ==
    /\ api.now < MaxNow
    /\ api' = [api EXCEPT !.now = @ + 1]
    /\ UNCHANGED <<callVars, history, sos, bookVars, voice, histories, updates, settings>>

\* ContactsScreen.addContact, with its saveContacts: the write is made, or
\* fails.  The form is filled in and its button pressed by hand: the clock
\* has moved on since whatever was done before.
ApiScreenAddContact ==
    /\ Len(api.calls) + api.saves < MaxApiCalls
    /\ api.now < MaxNow
    /\ \E written \in BOOLEAN :
           LET pressed == [api EXCEPT !.now = @ + 1]
           IN  api' = saveContacts(pressed,
                                   Append(pressed.displayed,
                                          ScreenNewContact(pressed)),
                                   written)
    /\ UNCHANGED <<callVars, history, sos, bookVars, voice, histories, updates, settings>>

\* The contact functions of utils/storage.js and ContactsScreen's saves.
NextApi ==
    \/ ApiAddContact
    \/ ApiUpdateContact
    \/ ApiDeleteContact
    \/ ApiGetStoredContactsSettles
    \/ ApiStoreContactsSettles
    \/ ApiTimePasses
    \/ ApiScreenAddContact

\* The stored histories.
NextHistory ==
    \/ CallStoreEmergencyEvent
    \/ CallStoreLocationUpdate
    \/ CallStoreSafetyReport

Next ==
    \/ NextApi
    \/ NextSettings
    \/ NextUnmount
    \/ NextHistory
    \/ NextUpdates
    \/ NextRisk
    \/ NextPlaces
    \/ NextSOS
    \/ NextBook
    \/ NextSms
    \/ NextRepeated
    \/ NextVoice

Spec == Init /\ [][Next]_vars

\* The stored histories alone, from what a launch may find stored.
SpecHistory == InitHistory /\ [][NextHistory]_vars

\* The periodic location updates alone.
SpecUpdates == Init /\ [][NextUpdates]_vars

\* The voice switches and HomeScreen's unmount alone.
SpecUnmount == Init /\ [][NextUnmount]_vars

\* SettingsScreen alone.
SpecSettings == Init /\ [][NextSettings]_vars

\* The contact functions alone.
SpecApi == Init /\ [][NextApi]_vars

\* The risk scorer alone.
SpecRisk == Init /\ [][NextRisk]_vars

\* The safe-place finder alone.
SpecPlaces == Init /\ [][NextPlaces]_vars

\* The SOS button alone.
SpecSOS == Init /\ [][NextSOS]_vars

\* The contact book alone.
SpecBook == Init /\ [][NextBook]_vars

\* The SMS utilities alone.
SpecSms == Init /\ [][NextSms]_vars

\* The repeated calls alone.
SpecRepeated == Init /\ [][NextRepeated]_vars

\* Voice recognition alone.
SpecVoice == Init /\ [][NextVoice]_vars

(***************************************************************************)
(* Properties of the risk scorer                                           *)
(***************************************************************************)

\* A call of calculateRiskScore has returned.
RiskScoreReturned == op = "calculateRiskScore"

\* A call of calculateRiskScore has returned and its additionalFactors
\* was an object: no statement of the try block threw.
RiskScoreNoFault == RiskScoreReturned /\ args.additionalFactors # None

\* The flat bonuses of the claims, in tenths, read from a factor object.
FlatBonus(f) ==
      (IF f.isAlone THEN 100 ELSE 0) + (IF f.isDarkArea THEN 150 ELSE 0)
    + (IF f.hasRecentIncidents THEN 200 ELSE 0) + (IF f.isWeekend THEN 50 ELSE 0)

\* The sum the claims state, in tenths, over the sub-scores a result
\* reports in its factors field.
StatedSum(r, f) ==
    4 * r.factors.time + 3 * r.factors.location + 2 * r.factors.environmental
    + r.factors.behavioral + FlatBonus(f)

\* C1: for every time, location-risk value and combination of factors,
\* when no internal fault occurs calculateRiskScore returns a score within
\* [0,100] (0..1000 tenths) and a level among Safe, Moderate and Unsafe.
C1_ScoreInRange ==
    RiskScoreNoFault =>
        /\ ret.score >= 0
        /\ ret.score <= 1000
        /\ ret.level \in {"Safe", "Moderate", "Unsafe"}

\* C1 witness: a call whose unclamped sum exceeds 100 and whose returned
\* score is the clamp's upper end.
C1_Witness ==
    /\ RiskScoreNoFault
    /\ StatedSum(ret, Get(args.additionalFactors)) > 1000
    /\ ret.score = 1000

\* The recommendation list the claims attach to each level.
StatedRecommendations(level) ==
    CASE level = "Unsafe" ->
           << "HIGH RISK: Leave the area immediately",
              "Call emergency services if needed",
              "Move to a well-lit, populated area",
              "Stay with trusted people if possible" >>
      [] level = "Moderate" ->
           << "MODERATE RISK: Stay alert and aware",
              "Share your location with trusted contacts",
              "Stay in well-lit areas",
              "Keep your phone accessible" >>
      [] level = "Safe" ->
           << "SAFE: Continue with normal precautions",
              "Stay aware of your surroundings",
              "Keep emergency contacts ready" >>
      [] OTHER -> << "Unable to assess risk level" >>

\* The level is the one the thresholds 70 and 40 give for the score.
LevelByScoreAlone(r) ==
    /\ (r.level = "Unsafe") <=> (r.score >= 700)
    /\ (r.level = "Moderate") <=> (r.score >= 400 /\ r.score < 700)
    /\ (r.level = "Safe") <=> (r.score < 400)

\* C2 as stated: the level of every returned result is determined by its
\* score alone (Unsafe iff score >= 70, Moderate iff 40 <= score < 70,
\* Safe iff score < 40) and the recommendations are that level's list.
C2_LevelByScore_Original ==
    RiskScoreReturned =>
        /\ LevelByScoreAlone(ret)
        /\ ret.recommendations = StatedRecommendations(ret.level)

\* C2 amended: the level is Unknown, with score 0, exactly when the call
\* faulted; in every other result the level is determined by the score
\* alone through the thresholds 70 and 40; in both cases the
\* recommendations are the fixed list of the level.
C2_LevelByScore ==
    RiskScoreReturned =>
        /\ (ret.level = "Unknown") <=> (args.additionalFactors = None)
        /\ ret.level = "Unknown" => ret.score = 0
        /\ ret.level # "Unknown" => LevelByScoreAlone(ret)
        /\ ret.recommendations = StatedRecommendations(ret.level)

\* C2 witness: a result whose score is exactly the threshold 70, or
\* exactly the threshold 40, classified Unsafe, respectively Moderate.
C2_Witness ==
    /\ RiskScoreNoFault
    /\ \/ ret.score = 700 /\ ret.level = "Unsafe"
       \/ ret.score = 400 /\ ret.level = "Moderate"

\* C3: the returned score is clamp(0.4 time + 0.3 location
\* + 0.2 environmental + 0.1 behavioral + 10 [isAlone] + 15 [isDarkArea]
\* + 20 [hasRecentIncidents] + 5 [isWeekend], 0, 100) over the sub-scores
\* the result reports in factors, and those sub-scores already count
\* isAlone (behavioral, 25) and isDarkArea (environmental, 40).
C3_WeightedSum ==
    RiskScoreNoFault =>
        LET f == Get(args.additionalFactors)
            sum == StatedSum(ret, f)
        IN  /\ ret.score = (IF sum < 0 THEN 0 ELSE IF sum > 1000 THEN 1000 ELSE sum)
            /\ ret.factors.time = calculateTimeRisk(args.hour, args.dayOfWeek)
            /\ ret.factors.location = (IF args.locationThrows THEN 50 ELSE 30 + args.random)
            /\ f.isAlone => ret.factors.behavioral >= 25
            /\ f.isDarkArea => ret.factors.environmental >= 40

\* C3 witness: isAlone and isDarkArea are both counted twice and the sum
\* is not clamped.
C3_Witness ==
    /\ RiskScoreNoFault
    /\ Get(args.additionalFactors).isAlone
    /\ Get(args.additionalFactors).isDarkArea
    /\ ret.score = StatedSum(ret, Get(args.additionalFactors))
    /\ ret.score < 1000

ScoreWithFlag(f, flag) ==
    calculateRiskScore(args.hour, args.dayOfWeek, args.random, args.locationThrows,
                       Some([f EXCEPT ![flag] = TRUE])).score

\* C5: with the time, the location-risk value and all other factors held
\* fixed, setting one more of the flags isAlone, isDarkArea,
\* isPoorLighting, hasRecentIncidents, isWeekend, isStationary,
\* isDistracted never decreases the returned score.
C5_Monotone ==
    RiskScoreNoFault =>
        \A flag \in Flags :
            LET f == Get(args.additionalFactors)
            IN  ~ f[flag] => ScoreWithFlag(f, flag) >= ret.score

\* C5 witness: a call with every flag unset, for which setting any one of
\* the seven flags raises the score (isStationary does with a
\* stationaryTime above 300000).
C5_Witness ==
    /\ RiskScoreNoFault
    /\ \A flag \in Flags : ~ Get(args.additionalFactors)[flag]
    /\ \A flag \in Flags :
           ScoreWithFlag(Get(args.additionalFactors), flag) > ret.score

\* A call of calculateTimeRisk has returned.
TimeRiskReturned == op = "calculateTimeRisk"

\* C6: for every hour 0..23 and day 0..6 the time risk is base + weekend
\* bonus clamped to [0,100]: base 80 for hours 22, 23, 0..5, 40 for hours
\* 6, 7, 18..21, 10 for hours 8..17; bonus 20 exactly on Saturday (6) and
\* Sunday (0).
C6_TimeRisk ==
    TimeRiskReturned =>
        LET base == CASE args.hour \in {22, 23} \cup (0 .. 5) -> 80
                      [] args.hour \in {6, 7} \cup (18 .. 21) -> 40
                      [] args.hour \in 8 .. 17 -> 10
            bonus == IF args.dayOfWeek \in {0, 6} THEN 20 ELSE 0
            sum == base + bonus
        IN  ret = (IF sum > 100 THEN 100 ELSE IF sum < 0 THEN 0 ELSE sum)

\* C6 witness: hour 5 on a Saturday, where both hour ranges match, the
\* night branch wins and the clamp cuts 80 + 20.
C6_Witness ==
    /\ TimeRiskReturned
    /\ args.hour = 5
    /\ args.dayOfWeek = 6
    /\ ret = 100

(***************************************************************************)
(* Properties of the safe-place finder                                     *)
(***************************************************************************)

\* A call of findNearestSafePlaces has returned.
NearestReturned == op = "findNearestSafePlaces"

\* The maxDistance and the limit a call is made with: the argument, or the
\* documented default of 5000 m, respectively 10 entries.
GivenMaxDistance == IF args.maxDistance = None THEN 5000 ELSE Get(args.maxDistance)

GivenLimit == IF args.limit = None THEN 10 ELSE Get(args.limit)

\* The position in the reference set of the entry with this id.
DatasetIndex(id) ==
    CHOOSE i \in 1 .. Len(loadSafePlaces) : loadSafePlaces[i].id = id

\* The distance from the origin of the call to the i-th reference entry.
DistanceTo(i) ==
    calculateDistance(args.latitude, args.longitude,
                      loadSafePlaces[i].latitude, loadSafePlaces[i].longitude)

\* The positions of the reference entries within the call's maxDistance.
InRange == {i \in 1 .. Len(loadSafePlaces) : DistanceTo(i) <= GivenMaxDistance}

\* C7: findNearestSafePlaces returns its entries in ascending order of
\* distance from the origin, and entries at equal distance appear in their
\* original dataset order.
C7_SortedStable ==
    NearestReturned =>
        \A i, j \in 1 .. Len(ret) :
            i < j =>
                \/ ret[i].distance < ret[j].distance
                \/ /\ ret[i].distance = ret[j].distance
                   /\ DatasetIndex(ret[i].id) < DatasetIndex(ret[j].id)

\* C7 witness: a result of five entries or more that holds entries at
\* different distances and the two malls at one coordinate (ids 3 and 6),
\* which are not the nearest entries.
C7_Witness ==
    /\ NearestReturned
    /\ Len(ret) >= 5
    /\ \E i \in 2 .. Len(ret) - 1 :
           /\ ret[i].id = "3"
           /\ ret[i + 1].id = "6"
           /\ ret[i].distance = ret[i + 1].distance
           /\ ret[i - 1].distance < ret[i].distance

\* C8: every entry returned by findNearestSafePlaces has distance <=
\* maxDistance, and the result is the empty sequence when no reference
\* entry is within maxDistance.
C8_WithinMaxDistance ==
    NearestReturned =>
        /\ \A i \in 1 .. Len(ret) : ret[i].distance <= GivenMaxDistance
        /\ \A i \in 1 .. Len(ret) : ret[i].distance = DistanceTo(DatasetIndex(ret[i].id))
        /\ InRange = {} => ret = << >>

\* C8 witness: a call whose maxDistance keeps some reference entries and
\* drops others, with a limit that cuts nothing.
C8_Witness ==
    /\ NearestReturned
    /\ InRange # {}
    /\ InRange # 1 .. Len(loadSafePlaces)
    /\ Len(ret) = Cardinality(InRange)

\* C8 second case: the origin some 300 km from every reference entry with
\* maxDistance 1 and limit 10 gives the empty sequence.
C8_FarOriginEmpty ==
    (/\ NearestReturned
     /\ args.latitude = 423601
     /\ args.longitude = -710589
     /\ args.maxDistance = Some(1)
     /\ args.limit = Some(10)) => ret = << >>

ByTypeReturned == op = "findNearestSafePlaceByType"

\* The positions of the reference entries of the call's type within its
\* maxDistance.
InRangeOfType == {i \in InRange : loadSafePlaces[i].type = args.type}

\* C10: findNearestSafePlaceByType returns the entry of the given type with
\* the smallest distance among those of that type within maxDistance, the
\* earliest in dataset order on a tie; it returns none exactly when no
\* entry of that type is within maxDistance; from the Central Police
\* Station coordinate with type police it returns that entry (id 1) with
\* distance 0.
C10_NearestOfType ==
    ByTypeReturned =>
        /\ (ret = None) <=> (InRangeOfType = {})
        /\ \A r \in ret :
             LET k == DatasetIndex(r.id)
             IN  /\ k \in InRangeOfType
                 /\ r.name = loadSafePlaces[k].name
                 /\ r.distance = DistanceTo(k)
                 /\ \A i \in InRangeOfType :
                        \/ DistanceTo(i) > DistanceTo(k)
                        \/ DistanceTo(i) = DistanceTo(k) /\ i >= k
        /\ (/\ args.latitude = 407128
            /\ args.longitude = -740060
            /\ args.type = "police"
            /\ GivenMaxDistance >= 0) =>
               \E r \in ret : r.id = "1" /\ r.distance = 0

\* C10 witness: the scenario of the claim, from the Central Police Station
\* coordinate with type police and maxDistance 5000, where a second
\* police station (id 10) is within range.
C10_Witness ==
    /\ ByTypeReturned
    /\ args.latitude = 407128
    /\ args.longitude = -740060
    /\ args.type = "police"
    /\ args.maxDistance = Some(5000)
    /\ Cardinality(InRangeOfType) >= 2
    /\ \E r \in ret : r.name = "Central Police Station" /\ r.distance = 0

\* C10, the tie: of the two malls at one coordinate the earlier of the
\* dataset (id 3) is returned whenever a mall is.
C10_TieWitness ==
    /\ ByTypeReturned
    /\ args.type = "mall"
    /\ {3, 6} \subseteq InRangeOfType
    /\ \E r \in ret : r.id = "3"

(***************************************************************************)
(* Properties of the SOS button                                            *)
(***************************************************************************)

\* C11: holding the enabled button for 2 seconds (20 ticks of the 100 ms
\* timer) raises the emergency prompt; a press released before 2 seconds
\* never raises it and shows nothing but the 'Hold for 2 seconds' hint
\* (shown once a tick has passed); onPress runs only when the user
\* confirms a prompt.
C11_HoldActivates ==
    /\ sos.held >= 20 => sos.raised >= 1
    /\ sos.held < 20 => sos.raised = 0
    /\ (sos.presses > 0 /\ ~ sos.touching /\ sos.held < 20) =>
           sos.hints = (IF sos.held > 0 THEN 1 ELSE 0)
    /\ sos.touching => sos.hints = 0
    /\ sos.onPressCalls = sos.confirms
    /\ sos.raised > 0 => ~ sos.disabled

\* C11 witness: the button was held for exactly 20 ticks, the one prompt
\* it raised was confirmed and onPress ran once.
C11_Witness ==
    /\ sos.held = 20
    /\ sos.raised = 1
    /\ sos.confirms = 1
    /\ sos.onPressCalls = 1

\* C11, the other case: a press released after 19 ticks showed the hint
\* and raised no prompt.
C11_ReleasedEarly ==
    /\ sos.presses = 1
    /\ ~ sos.touching
    /\ sos.held = 19
    /\ sos.hints = 1
    /\ sos.raised = 0
    /\ sos.open = 0

(***************************************************************************)
(* Properties of the contact book                                          *)
(***************************************************************************)

\* C12: an SMS composer opened by a confirmed SOS is addressed to the
\* formatted phone numbers of exactly the contacts stored at that moment
\* with isEmergency set and a phone number, whatever ContactsScreen did
\* before; and the SOS button is enabled whenever HomeScreen has loaded and
\* one contact or more is stored.
C12_AddressedToStored ==
    /\ composer # None =>
         Get(composer).to = PhoneNumbers(Get(composer).stored)
    /\ (~ home.loading /\ Len(store) > 0) => ~ SOSButtonDisabled

\* C12: a contact added and stored after HomeScreen loaded: the button
\* stays disabled.
C12_DisabledWithStoredContact ==
    /\ ~ home.loading
    /\ Len(store) > 0
    /\ SOSButtonDisabled

\* C12: an SOS addressed to a contact that is no longer an emergency
\* contact, and not to the one that is.
C12_StaleRecipients ==
    /\ composer # None
    /\ Len(Get(composer).to) = 1
    /\ Len(PhoneNumbers(Get(composer).stored)) = 1
    /\ Get(composer).to # PhoneNumbers(Get(composer).stored)

(***************************************************************************)
(* Properties of the emergency SMS                                         *)
(***************************************************************************)

SendEmergencyReturned == op = "sendEmergencySMS"

\* The positions of the given contacts with a phone and isEmergency set.
GivenEmergency ==
    IF args.contacts = None THEN {}
    ELSE { i \in 1 .. Len(Get(args.contacts)) :
             /\ Get(args.contacts)[i].isEmergency
             /\ Get(args.contacts)[i].phone \notin {None, Some(<<>>)} }

\* numbers is the phones of the contacts at GivenEmergency, in their order.
ExactlyTheEmergencyPhones(numbers) ==
    /\ Len(numbers) = Cardinality(GivenEmergency)
    /\ \A i \in GivenEmergency :
         numbers[Cardinality({j \in GivenEmergency : j <= i})]
             = Get(Get(args.contacts)[i].phone)

\* C13: sendEmergencySMS resolves to true or false and never rejects; it
\* resolves to true only if SMS.sendSMSAsync was called once, with exactly
\* the phones of the given contacts that have a phone and isEmergency, and
\* resolved to 'sent'; when SMS is unavailable, or the list is null or
\* empty, or no given contact is an emergency contact with a phone, it
\* resolves to false and SMS.sendSMSAsync was not called.
C13_TrueOnlyIfSent ==
    SendEmergencyReturned =>
        /\ ret.value \in BOOLEAN
        /\ ret.value =>
              /\ Len(ret.sendCalls) = 1
              /\ ExactlyTheEmergencyPhones(ret.sendCalls[1])
              /\ args.sendSMSAsync = [result |-> "sent"]
        /\ ( \/ args.isAvailableAsync # [resolved |-> TRUE]
             \/ args.contacts = None
             \/ GivenEmergency = {} ) =>
              /\ ret.value = FALSE
              /\ ret.sendCalls = <<>>

\* C13: two contacts given, one of them an emergency contact with a phone,
\* and the SMS reported sent to that one alone.
C13_Witness ==
    /\ SendEmergencyReturned
    /\ ret.value = TRUE
    /\ Len(Get(args.contacts)) = 2
    /\ Cardinality(GivenEmergency) = 1
    /\ Get(args.contacts)[1].phone \notin {None, Some(<<>>)}
    /\ Get(args.contacts)[2].phone \notin {None, Some(<<>>)}
    /\ Len(ret.sendCalls[1]) = 1

\* C13: SMS available and an emergency contact given, but the availability
\* check rejected: false, nothing sent.
C13_UnavailableWitness ==
    /\ SendEmergencyReturned
    /\ Threw(args.isAvailableAsync)
    /\ GivenEmergency # {}
    /\ ret = [value |-> FALSE, sendCalls |-> <<>>]

(***************************************************************************)
(* Properties of repeated calls                                            *)
(***************************************************************************)

\* A first call has returned and a later call of the same function with
\* the same arguments has returned too.
SameCallTwice ==
    /\ history # NoValue
    /\ history.settled
    /\ op = history.op
    /\ args = history.args

\* The places a safe-place query returned.
PlacesReturned(r) ==
    IF op = "findNearestSafePlaces" THEN {r[i] : i \in 1 .. Len(r)}
    ELSE IF op = "findNearestSafePlaceByType" THEN r
    ELSE {}

C14_RiskWitness ==
    /\ SameCallTwice
    /\ op = "calculateRiskScore"
    /\ ret.score > 0

(***************************************************************************)
(* Properties of the sub-scores                                            *)
(***************************************************************************)

BehavioralReturned == op = "calculateBehavioralRisk"

EnvironmentalReturned == op = "calculateEnvironmentalRisk"

\* An optional number is present and above n.
PresentAbove(x, n) == x # None /\ Get(x) > n

\* An optional number is present and below n.
PresentBelow(x, n) == x # None /\ Get(x) < n

\* C15: the behavioral sub-score is 30 when isStationary is set and the
\* stationary time given exceeds 300000, plus 20 when the speed given
\* exceeds 50, plus 25 when isAlone, plus 15 when isDistracted, the sum
\* clamped to 0..100.
C15_BehavioralSum ==
    BehavioralReturned =>
        LET f == args.factors
            sum == (IF f.isStationary /\ PresentAbove(f.stationaryTime, 300000)
                    THEN 30 ELSE 0)
                 + (IF PresentAbove(f.speed, 50) THEN 20 ELSE 0)
                 + (IF f.isAlone THEN 25 ELSE 0)
                 + (IF f.isDistracted THEN 15 ELSE 0)
        IN  ret = (IF sum < 0 THEN 0 ELSE IF sum > 100 THEN 100 ELSE sum)

\* C15: every term counted, 90 in all.
C15_Witness ==
    /\ BehavioralReturned
    /\ args.factors.isStationary
    /\ args.factors.stationaryTime = Some(300001)
    /\ args.factors.speed = Some(51)
    /\ args.factors.isAlone
    /\ args.factors.isDistracted
    /\ ret = 90

\* C15: stationary for 300000 ms exactly, and at 50 km/h exactly: nothing.
C15_AtThresholds ==
    /\ BehavioralReturned
    /\ args.factors.isStationary
    /\ args.factors.stationaryTime = Some(300000)
    /\ args.factors.speed = Some(50)
    /\ ret = 0

C16_AbsentFields ==
    /\ EnvironmentalReturned
    /\ args.factors.weather =
           Some([visibility |-> None, precipitation |-> None, temperature |-> None])
    /\ ~ args.factors.isDarkArea
    /\ args.factors.isPoorLighting
    /\ ret = 25

\* C17: on a Saturday at 23h, with isAlone, isDarkArea and
\* hasRecentIncidents set, calculateRiskScore returns level Unsafe and
\* score 100 whatever calculateLocationRisk returned.
C17_SaturdayNight ==
    ( /\ RiskScoreNoFault
      /\ args.dayOfWeek = 6
      /\ args.hour = 23
      /\ Get(args.additionalFactors).isAlone
      /\ Get(args.additionalFactors).isDarkArea
      /\ Get(args.additionalFactors).hasRecentIncidents ) =>
        /\ ret.level = "Unsafe"
        /\ ret.score = 1000

\* C17: the scenario with nothing else set and the least location risk,
\* 30: 95.5 + 9 before the clamp.
C17_Witness ==
    /\ RiskScoreNoFault
    /\ args.dayOfWeek = 6
    /\ args.hour = 23
    /\ args.random = 0
    /\ ~ args.locationThrows
    /\ Get(args.additionalFactors) =
           [ isAlone |-> TRUE, isDarkArea |-> TRUE, isPoorLighting |-> FALSE,
             hasRecentIncidents |-> TRUE, isWeekend |-> FALSE,
             isStationary |-> FALSE, isDistracted |-> FALSE,
             stationaryTime |-> None, speed |-> None, weather |-> None ]
    /\ ret.factors = [time |-> 100, location |-> 30, environmental |-> 40,
                      behavioral |-> 25]
    /\ ret.score = 1000
    /\ ret.level = "Unsafe"

(***************************************************************************)
(* Properties of calculateDistance                                         *)
(***************************************************************************)

DistanceReturned == op = "calculateDistance"

C18_SamePoint ==
    /\ DistanceReturned
    /\ args.a = args.b
    /\ ret = [there |-> 0, back |-> 0]

(***************************************************************************)
(* Properties of voice recognition                                         *)
(***************************************************************************)

\* C19: Voice.start is never called while the recogniser is listening or
\* being started, whatever the order in which the calls of
\* startVoiceRecognition and their awaits run.
C19_SingleSession ==
    \A i \in 1 .. Len(voice.log) : voice.log[i].recogniser = "idle"

\* C19: both screens' calls passed the check of voiceRecognitionActive
\* before either set it, and Voice.start was called by the second while
\* the first's start had not settled.
C19_StartedTwice ==
    /\ Len(voice.log) = 2
    /\ voice.log[1].by = "home"
    /\ voice.log[2].by = "settings"
    /\ voice.log[2].recogniser = "starting"

\* The calls of Voice.start made for restart timers with a callback
\* registered.
RestartStarts ==
    {i \in 1 .. Len(voice.log) :
        voice.log[i].by = "restart" /\ voice.log[i].callback # None}

\* C20: after a speech error while recognition is active, the restart
\* timer's call starts the recogniser again with the registered callback:
\* every such call that has returned has called Voice.start, and once
\* nothing is in flight an active recognition is listening.
C20_RestartedAfterError ==
    /\ voice.restartReturns <= Cardinality(RestartStarts)
    /\ ( /\ voice.active
         /\ voice.timers = 0
         /\ \A c \in Callers : voice.calls[c] = "none" ) =>
            voice.recogniser = "listening"

\* C20: recognition active, a speech error, the timer fired and its call
\* returned; Voice.start was called once only, before the error, and the
\* recogniser is idle with nothing left to start it.
C20_NeverRestarted ==
    /\ voice.active
    /\ voice.errors = 1
    /\ voice.timers = 0
    /\ voice.restartReturns = 1
    /\ \A c \in Callers : voice.calls[c] = "none"
    /\ Len(voice.log) = 1
    /\ voice.recogniser = "idle"

\* The history of a kind holds the newest Min(stored, cap) entries of its
\* kind, the newest first.
NewestFirst(kind, cap) ==
    LET list == histories.list[kind]
        stored == histories.stored[kind]
    IN  /\ Len(list) <= cap
        /\ Len(list) = Min(stored, cap)
        /\ \A i \in 1 .. Len(list) : list[i] = stored - i + 1

C22_NoSmsAfterStop == updates.afterStop = 0

\* A run of the callback that began before stop() called SMS.sendSMSAsync
\* after it.
C22_SentAfterStop ==
    /\ updates.interval = "cleared"
    /\ updates.afterStop > 0

\* After stop() the interval begins no further run of its callback.
C22_NoRunBeginsAfterStop ==
    [][updates.interval = "cleared" =>
           Len(updates'.ticks) = Len(updates.ticks)]_vars

\* C23: when HomeScreen unmounts while voice SOS is active, enabled through
\* toggleVoiceSOS, its cleanup stops voice recognition: it calls
\* stopVoiceRecognition, or recognition is inactive at once.
C23_CleanupStops ==
    [][(/\ voice.homeMounted
        /\ ~ voice'.homeMounted
        /\ voice.switch["home"]
        /\ voice.active)
       => (voice'.calls["home"] = "stop" \/ ~ voice'.active)]_vars

\* HomeScreen has unmounted with its voice SOS on and recognition is active
\* with no call of stopVoiceRecognition made.
C23_ActiveAfterUnmount ==
    /\ ~ voice.homeMounted
    /\ voice.switch["home"]
    /\ voice.active
    /\ voice.recogniser = "listening"
    /\ \A c \in Callers : voice.calls[c] = "none"

\* C24: when the Voice SOS switch of SettingsScreen is turned on and
\* startVoiceRecognition fails, returning false or throwing, the settings
\* are not saved: the settings in memory and the stored settings stay as
\* they were, voiceSOS and every other setting, and no save is begun.
C24_FailedStartNotSaved ==
    [][(settings'.alerts > settings.alerts)
       => (/\ settings'.memory = settings.memory
           /\ settings'.stored = settings.stored
           /\ settings'.saves = settings.saves)]_vars

\* A start failed after nightMode had been turned on and saved: voiceSOS is
\* false and nightMode true, in memory and stored, and nothing waits.
C24_Witness ==
    /\ settings.alerts = 1
    /\ settings.toggle = None
    /\ settings.saves = <<>>
    /\ settings.memory = [voiceSOS |-> FALSE, nightMode |-> TRUE]
    /\ settings.stored = Some(settings.memory)
    /\ settings.presses = 2

\* A call of stopVoiceRecognition has stopped recognition, and no screen
\* has called startVoiceRecognition since or has a call of it in flight.
StoppedAndNotStarted == voice.stopped

\* C25: once stopVoiceRecognition has completed successfully, recognition
\* stays inactive and Voice.start is not invoked until startVoiceRecognition
\* is called explicitly, whatever speech errors and restart timers are
\* pending.
C25_StaysStopped ==
    StoppedAndNotStarted =>
        /\ ~ voice.active
        /\ voice.recogniser = "idle"
        /\ voice.calls["restart"] # "start"

\* Recognition was stopped, no screen has started it since, and it is
\* active and listening again: a restart timer set before the stop started
\* it, with no callback registered.
C25_RestartedAfterStop ==
    /\ StoppedAndNotStarted
    /\ voice.active
    /\ voice.recogniser = "listening"
    /\ voice.callback = None
    /\ \A s \in Screens : ~ voice.switch[s]

\* The calls of addContact that returned a contact after their write was
\* made, with no call of deleteContact given that contact's id.
AddedAndKept ==
    {i \in 1 .. Len(api.calls) :
        /\ api.calls[i].kind = "add"
        /\ api.calls[i].stage = "done"
        /\ api.calls[i].result = "contact"
        /\ api.calls[i].written
        /\ \A j \in 1 .. Len(api.calls) :
               api.calls[j].kind = "delete" =>
                   Get(api.calls[j].given) # api.calls[i].updated[Len(api.calls[i].updated)].id}

\* C26: every addContact call that returns a contact leaves that contact in
\* the stored list, for any interleaving of addContact, updateContact and
\* deleteContact calls that do not delete it.  (ContactsScreen has saved
\* nothing, and the write of the call itself was made.)
C26_AddedStaysStored ==
    api.saves = 0 =>
        \A i \in AddedAndKept :
            \E k \in 1 .. Len(api.stored) : api.stored[k].by = i

\* Two calls of addContact overlapped, both wrote and returned their
\* contact, nothing was deleted, and only the second's is stored.
C26_LostContact ==
    /\ api.saves = 0
    /\ Len(api.calls) = 2
    /\ AddedAndKept = {1, 2}
    /\ Len(api.stored) = 1
    /\ api.stored[1].by = 2

\* C29: after any sequence of additions, by addContact of utils/storage.js
\* or by ContactsScreen.addContact, one after the other, the stored contacts
\* have pairwise distinct ids.
C29_DistinctIds ==
    ~ api.overlapped =>
        \A i, j \in 1 .. Len(api.stored) :
            i # j => api.stored[i].id # api.stored[j].id

\* Two calls of addContact, one after the other, neither given an id, have
\* stored two contacts with the same id.
C29_SameId ==
    /\ ~ api.overlapped
    /\ api.saves = 0
    /\ Len(api.calls) = 2
    /\ \A i \in 1 .. 2 : api.calls[i].kind = "add" /\ api.calls[i].given = None
    /\ Len(api.stored) = 2
    /\ api.stored[1].id = api.stored[2].id

\* Two calls of addContact, one after the other and a millisecond apart,
\* each given a contact with the id field 1, have stored two contacts with
\* that id.
C29_GivenIdTwice ==
    /\ ~ api.overlapped
    /\ api.saves = 0
    /\ Len(api.calls) = 2
    /\ \A i \in 1 .. 2 : api.calls[i].kind = "add" /\ api.calls[i].given = Some(1)
    /\ api.now = 2
    /\ Len(api.calls[1].updated) = 1
    /\ Len(api.stored) = 2
    /\ api.stored[1].id = api.stored[2].id

\* C30: a contact operation reports success only if its write was
\* persisted: when the write fails addContact returns null and updateContact
\* and deleteContact return false, and ContactsScreen does not replace its
\* displayed list, so that what it displays is what is stored.
C30_SuccessOnlyIfPersisted ==
    /\ \A i \in 1 .. Len(api.calls) :
           (api.calls[i].stage = "done" /\ ~ api.calls[i].written) =>
               api.calls[i].result \in {"null", "false"}
    /\ api.calls = <<>> => api.displayed = api.stored

\* A call of addContact whose write failed returned its contact, and
\* nothing is stored.
C30_ReturnedUnwritten ==
    /\ Len(api.calls) = 1
    /\ api.calls[1].kind = "add"
    /\ api.calls[1].stage = "done"
    /\ ~ api.calls[1].written
    /\ api.calls[1].result = "contact"
    /\ api.stored = <<>>

\* ContactsScreen displays a contact whose write failed: nothing is stored.
C30_DisplayedUnwritten ==
    /\ api.calls = <<>>
    /\ api.saves = 1
    /\ Len(api.displayed) = 1
    /\ api.stored = <<>>

\* C27: whenever a screen's call startVoiceRecognition(cb) returns true, cb
\* is the registered callback, the one a recognised SOS keyword invokes,
\* also when another screen had started recognition before with its own.
C27_TrueMeansRegistered ==
    [][\A s \in Screens :
           (~ voice.switch[s] /\ voice'.switch[s]) =>
               voice'.callback = Some(CallbackOf(s))]_vars

\* HomeScreen started recognition with handleVoiceSOS; SettingsScreen's call
\* then returned true, its switch is on, and the registered callback is
\* still handleVoiceSOS.
C27_OtherCallbackKept ==
    /\ voice.active
    /\ voice.switch["home"]
    /\ voice.switch["settings"]
    /\ Len(voice.log) = 1
    /\ voice.log[1].by = "home"
    /\ voice.callback = Some("handleVoiceSOS")

\* C28: one continuous press of the SOS button raises the emergency prompt
\* at most once, however long the button is held, and none is raised after
\* the release.  raised counts the prompts since the press began.
C28_OncePerPress == sos.raised <= 1

\* The button has been held for 4 seconds without release and the prompt
\* has been raised twice.
C28_RaisedTwice ==
    /\ sos.touching
    /\ sos.presses = 1
    /\ sos.held = 2 * TicksToActivate
    /\ sos.raised = 2
    /\ sos.open = 2

\* While the button is not touched no prompt is raised.
C28_NoneAfterRelease ==
    [][(~ sos.touching /\ ~ sos'.touching) => sos'.raised = sos.raised]_vars

====
